---------------------------- MODULE Spec2Model ----------------------------
(***************************************************************************)
(* Model of the model-routing pipeline of the order parser:                *)
(*   - RuleBasedModelDetector.detect        (app/pipeline/detectors.py)    *)
(*   - PipelineRunner.run and its helpers   (app/pipeline/runner.py)       *)
(*   - the processing-log and parsed-document stores it writes.            *)
(*                                                                         *)
(* Text is modelled by the words that occur in it: a context carries the   *)
(* words of its first twenty lines (head) and of the remaining lines       *)
(* (tail), in the case they are written in.  "v in raw_text" of the code   *)
(* is membership of v in the lowercased words.  A confidence is the exact  *)
(* fraction score/max_score in lowest terms.                               *)
(***************************************************************************)
EXTENDS Integers, Sequences, FiniteSets, TLC

VARIABLES
    models,     \* the model list handed to detect / held by the registry
    context,    \* the ParseContext of a stand-alone detect call
    ret,        \* <<>> before detect returned, <<detection>> after
    input,      \* run id -> ParseInput of that invocation of run
    pc,         \* run id -> position of the invocation inside run
    detection,  \* run id -> ModelDetection local of run
    model,      \* run id -> ModelDefinition local of run
    exc,        \* run id -> exception in flight / raised to the caller
    canonical,  \* run id -> CanonicalParseOutput local / returned by run
    logs,       \* processing_logs table: log id -> row
    docs,       \* parsed_documents table: document id -> row
    audit,      \* records handed to the audit logger, in order
    registries, \* the sources of a CompositeModelRegistry, in priority order
    file,       \* what yaml.safe_load gives for the models file
    db,         \* parser_models and parser_model_versions tables
    arg         \* the argument of a stand-alone call of a pure function

vars == <<models, context, ret, input, pc, detection, model, exc, canonical,
          logs, docs, audit, registries, file, db, arg>>

(* the state the runner never touches *)
others == <<registries, file, db, arg>>

-----------------------------------------------------------------------------
(* Bounds of the model *)

MaxModels == 3
MaxRules == 2

(* Program constants *)

KeywordWeight == 2
NameWeight == 2
CnpjWeight == 3
HeaderRegexWeight == 2
RequiredFieldWeight == 1
ThresholdNum == 6
ThresholdDen == 10

None == "<None>"

-----------------------------------------------------------------------------
(* Generic helpers *)

Range(s) == {s[i] : i \in 1..Len(s)}

Max(a, b) == IF a >= b THEN a ELSE b

RECURSIVE Gcd(_, _)
Gcd(a, b) == IF b = 0 THEN a ELSE Gcd(b, a % b)

SeqsUpTo(S, n) == UNION {[1..k -> S] : k \in 0..n}

(* str.lower() on the words of the model *)
Lower(w) ==
    CASE w = "LAR" -> "lar"
      [] w = "Lar" -> "lar"
      [] w = "CNPJ" -> "cnpj"
      [] w = "Active" -> "active"
      [] w = "PO-9" -> "po-9"
      [] w = "SKU-1" -> "sku-1"
      [] OTHER -> w

(* Python truthiness of a configured rule value: "" and None are dropped *)
Truthy(v) == v # "" /\ v # None

-----------------------------------------------------------------------------
(* RuleBasedModelDetector.detect *)

MapLower(s) == [i \in 1..Len(s) |-> Lower(s[i])]

(* [str(k).lower() for k in detection.get(key, []) if k] *)
Configured(values) == MapLower(SelectSeq(values, Truthy))

(* [str(c) for c in detection.get(key, []) if c] : kept in the case written *)
ConfiguredRaw(values) == SelectSeq(values, Truthy)

(* context.raw_text.lower(), as the set of words occurring in it *)
RawText(ctx) == {Lower(w) : w \in ctx.head \cup ctx.tail}

(* "\n".join(context.raw_text.splitlines()[:20]).lower() *)
HeaderText(ctx) == {Lower(w) : w \in ctx.head}

(* set((data.get("customer_cnpjs") or []) + (data.get("cnpjs") or [])) *)
DeterministicCnpjs(ctx) == Range(ctx.customer_cnpjs) \cup Range(ctx.cnpjs)

(* the header regexes that do not compile *)
MalformedRegex == {"("}

(* re.search(regex, header_text, re.IGNORECASE) for a literal pattern *)
ReSearch(regex, header_text) ==
    IF regex \in MalformedRegex THEN "error"
    ELSE IF Lower(regex) \in header_text THEN "match" ELSE "nomatch"

(* [v for v in values if v and v in raw_text] *)
TextMatches(values, raw_text) ==
    LET Hit(v) == Truthy(v) /\ v \in raw_text
    IN  SelectSeq(values, Hit)

CnpjMatches(cnpjs, deterministic_cnpjs) ==
    LET Hit(c) == Truthy(c) /\ c \in deterministic_cnpjs
    IN  SelectSeq(cnpjs, Hit)

(* a loop that an re.error ends: the regexes after it are not tried *)
HeaderMatchesUntilError(header_regex, header_text) ==
    LET errors == {i \in 1..Len(header_regex) :
                      ReSearch(header_regex[i], header_text) = "error"}
        tried == IF errors = {} THEN header_regex
                 ELSE SubSeq(header_regex, 1,
                             (CHOOSE i \in errors :
                                  \A j \in errors : i <= j) - 1)
    IN  SelectSeq(tried, LAMBDA r : ReSearch(r, header_text) = "match")

(* the try/except loop over header_regex: re.error skips the regex *)
HeaderMatches(header_regex, header_text) ==
    LET Hit(r) == ReSearch(r, header_text) = "match"
    IN  SelectSeq(header_regex, Hit)

MatchRequiredFields(raw_text, required_fields) ==
    LET Hit(f) == Truthy(f) /\ f \in raw_text
    IN  SelectSeq(required_fields, Hit)

MaxScorePerValue(keywords, names, cnpjs, header_regex, required_fields) ==
      Len(keywords) * KeywordWeight
    + Len(names) * NameWeight
    + Len(cnpjs) * CnpjWeight
    + Len(header_regex) * HeaderRegexWeight
    + Len(required_fields) * RequiredFieldWeight

MaxScore(keywords, names, cnpjs, header_regex, required_fields) ==
      (IF keywords # <<>> THEN KeywordWeight ELSE 0)
    + (IF names # <<>> THEN NameWeight ELSE 0)
    + (IF cnpjs # <<>> THEN CnpjWeight ELSE 0)
    + (IF header_regex # <<>> THEN HeaderRegexWeight ELSE 0)
    + Len(required_fields) * RequiredFieldWeight

CategoryScorePerMatch(matches, weight) == Len(matches) * weight

(* score += w once when the category has a match *)
CategoryScore(matches, weight) == IF matches # <<>> THEN weight ELSE 0

(* score += 1 for every matched required field *)
RequiredScore(matched_required) == Len(matched_required) * RequiredFieldWeight

(* one reason for a category, however many of its values matched *)
ReasonsOncePerCategory(type, matches) ==
    IF matches = <<>> THEN <<>> ELSE << <<type, matches[1]>> >>

(* reasons.append(f"<type>:{value}") for every match *)
Reasons(type, matches) == [i \in 1..Len(matches) |-> <<type, matches[i]>>]

(* evidence.append({"type": type, "value": value, "score": weight}) *)
Entries(type, matches, weight) ==
    [i \in 1..Len(matches) |->
        [type |-> type, value |-> matches[i], score |-> weight]]

(* a float as the exact fraction n/d in lowest terms *)
Frac(n, d) == LET g == Gcd(n, d) IN [n |-> n \div g, d |-> d \div g]

Zero == Frac(0, 1)
One == Frac(1, 1)

Less(a, b) == a.n * b.d < b.n * a.d

(* min(1.0, score / max(max_score, 1)) *)
Confidence(score, max_score) ==
    LET q == Frac(score, Max(max_score, 1))
    IN  IF Less(One, q) THEN One ELSE q

(* the body of the loop for one model: lines 33-89 *)
Evaluate(m, ctx) ==
    LET rules == m.detection
        keywords == Configured(rules.keywords)
        names == Configured(rules.customer_names)
        cnpjs == ConfiguredRaw(rules.customer_cnpjs)
        header_regex == ConfiguredRaw(rules.header_regex)
        required_fields == Configured(rules.required_fields)
        keyword_matches == TextMatches(keywords, RawText(ctx))
        name_matches == TextMatches(names, RawText(ctx))
        cnpj_matches == CnpjMatches(cnpjs, DeterministicCnpjs(ctx))
        header_matches == HeaderMatches(header_regex, HeaderText(ctx))
        matched_required == MatchRequiredFields(RawText(ctx), required_fields)
        reasons ==
            Reasons("keyword", keyword_matches)
            \o Reasons("name", name_matches)
            \o Reasons("cnpj", cnpj_matches)
            \o Reasons("header_regex", header_matches)
            \o Reasons("required_field", matched_required)
        evidence ==
            Entries("keyword", keyword_matches, KeywordWeight)
            \o Entries("name", name_matches, NameWeight)
            \o Entries("cnpj", cnpj_matches, CnpjWeight)
            \o Entries("header_regex", header_matches, HeaderRegexWeight)
            \o Entries("required_field", matched_required, RequiredFieldWeight)
    IN  [score |-> CategoryScore(keyword_matches, KeywordWeight)
                   + CategoryScore(name_matches, NameWeight)
                   + CategoryScore(cnpj_matches, CnpjWeight)
                   + CategoryScore(header_matches, HeaderRegexWeight)
                   + RequiredScore(matched_required),
         max_score |-> MaxScore(keywords, names, cnpjs, header_regex,
                                required_fields),
         reasons |-> reasons,
         evidence |-> evidence]

ModelDetection(model_id, confidence, reasons, evidence, overridden) ==
    [model_id |-> model_id, confidence |-> confidence, reasons |-> reasons,
     evidence |-> evidence, overridden |-> overridden]

SkippedNever(m) == FALSE

(* line 27: if not model.enabled or model.status != "active": continue *)
Skipped(m) == ~m.enabled \/ m.status # "active"

IsFallbackModelFlagOnly(m) == m.detection.fallback

(* line 30 *)
IsFallbackModel(m) == m.model_id = "generic" \/ m.detection.fallback

ReplacesOnTie(d, best) ==
    best = <<>> \/ ~Less(d.confidence, best[1].confidence)

(* line 102: best is None or detection_result.confidence > best.confidence *)
Replaces(d, best) == best = <<>> \/ Less(best[1].confidence, d.confidence)

NoMatchBare(fallback_model_id, ms) ==
    ModelDetection(IF fallback_model_id # None THEN fallback_model_id
                   ELSE IF ms # <<>> THEN ms[1].model_id ELSE "unknown",
                   Zero, <<>>, <<>>, FALSE)

(* lines 108-114 *)
NoMatch(fallback_model_id, ms) ==
    LET fallback_id ==
            IF fallback_model_id # None THEN fallback_model_id
            ELSE IF ms # <<>> THEN ms[1].model_id ELSE "unknown"
    IN  ModelDetection(fallback_id, Zero, << <<"no_match">> >>,
            <<[type |-> "fallback", value |-> fallback_id, score |-> 0]>>,
            FALSE)

(* the for loop of lines 26-103, from model i on, then lines 105-114 *)
RECURSIVE DetectFrom(_, _, _, _, _)
DetectFrom(i, best, fallback_model_id, ctx, ms) ==
    IF i > Len(ms)
    THEN IF best # <<>> THEN best[1] ELSE NoMatch(fallback_model_id, ms)
    ELSE LET m == ms[i] IN
         IF Skipped(m) THEN DetectFrom(i + 1, best, fallback_model_id, ctx, ms)
         ELSE LET fb == IF IsFallbackModel(m) THEN m.model_id
                        ELSE fallback_model_id
                  e == Evaluate(m, ctx)
                  d == ModelDetection(m.model_id,
                           Confidence(e.score, e.max_score),
                           e.reasons, e.evidence, FALSE)
              IN  IF e.score <= 0 THEN DetectFrom(i + 1, best, fb, ctx, ms)
                  ELSE IF Replaces(d, best)
                       THEN DetectFrom(i + 1, <<d>>, fb, ctx, ms)
                       ELSE DetectFrom(i + 1, best, fb, ctx, ms)

detect(ctx, ms) == DetectFrom(1, <<>>, None, ctx, ms)

-----------------------------------------------------------------------------
(* The inputs of the stand-alone detector specifications *)

NoRun == <<>>

ModelDefinition(model_id, enabled, status, rules) ==
    [model_id |-> model_id, enabled |-> enabled, status |-> status,
     detection |-> rules]

Rules(keywords, names, cnpjs, header_regex, required_fields, fallback) ==
    [keywords |-> keywords, customer_names |-> names,
     customer_cnpjs |-> cnpjs, header_regex |-> header_regex,
     required_fields |-> required_fields, fallback |-> fallback]

ParseContext(head, tail, customer_cnpjs, cnpjs) ==
    [head |-> head, tail |-> tail, customer_cnpjs |-> customer_cnpjs,
     cnpjs |-> cnpjs]

(* one enabled, active model with up to MaxRules keywords and header        *)
(* regexes (an empty keyword and a regex that does not compile included)    *)
ScoredModels ==
    {ModelDefinition("lar", TRUE, "active",
                     Rules(kw, nm, cn, rx, rq, FALSE)) :
        kw \in SeqsUpTo({"LAR", ""}, MaxRules),
        nm \in {<<>>, <<"acme">>},
        cn \in {<<>>, <<"123">>},
        rx \in SeqsUpTo({"LAR", "("}, MaxRules),
        rq \in {<<>>, <<"cnpj">>, <<"cnpj", "pedido">>}}

ScoredContexts ==
    {ParseContext(h, t, c[1], c[2]) :
        h \in SUBSET {"LAR", "CNPJ", "("},
        t \in SUBSET {"Lar", "acme"} \cup {{"pedido"}},
        c \in {<< <<>>, <<>> >>, << <<"123">>, <<>> >>, << <<>>, <<"123">> >>}}

(* the ids of a list of n models: distinct, as in a registry keyed by id *)
OtherIds == <<"lar", "brf", "acme">>

IdOrders(n) ==
    {[i \in 1..n |-> IF i = g THEN "generic"
                     ELSE OtherIds[IF g # 0 /\ i > g THEN i - 1 ELSE i]] :
        g \in {k \in 0..n : n - (IF k = 0 THEN 0 ELSE 1) <= Len(OtherIds)}}

Availability ==
    {<<TRUE, "active">>, <<FALSE, "active">>, <<TRUE, "inactive">>}

(* no rule, a keyword, a keyword and a required token the text never has *)
ListedRules ==
    {Rules(<<>>, <<>>, <<>>, <<>>, <<>>, fb) : fb \in BOOLEAN}
    \cup {Rules(<<"LAR">>, <<>>, <<>>, <<>>, rq, fb) :
            rq \in SeqsUpTo({"pedido"}, 1), fb \in BOOLEAN}

(* a model the detector skips keeps its fallback flag; its other rules are   *)
(* never read                                                               *)
ListedAttrs ==
    ({<<TRUE, "active">>} \X ListedRules)
    \cup ((Availability \ {<<TRUE, "active">>})
          \X {Rules(<<>>, <<>>, <<>>, <<>>, <<>>, fb) : fb \in BOOLEAN})

ModelList(ids, attrs) ==
    [i \in 1..Len(ids) |->
        ModelDefinition(ids[i], attrs[i][1][1], attrs[i][1][2], attrs[i][2])]

ListedContexts == {ParseContext(h, {}, <<>>, <<>>) : h \in SUBSET {"LAR"}}

EmptyContext == ParseContext({}, {}, <<>>, <<>>)

Idle ==
    /\ input = NoRun /\ pc = NoRun /\ detection = NoRun /\ model = NoRun
    /\ exc = NoRun /\ canonical = NoRun
    /\ logs = <<>> /\ docs = <<>> /\ audit = <<>>

(* no composite registry, no models file, no model store, no call *)
Unused ==
    /\ registries = <<>> /\ file = <<>> /\ db = <<>> /\ arg = <<>>

InitScore ==
    /\ \E m \in ScoredModels : models = <<m>>
    /\ context \in ScoredContexts
    /\ ret = <<>>
    /\ Idle
    /\ Unused

(* a call of detect(context, models) *)
Detect ==
    /\ ret = <<>>
    /\ ret' = <<detect(context, models)>>
    /\ UNCHANGED <<models, context, input, pc, detection, model, exc,
                   canonical, logs, docs, audit>>
    /\ UNCHANGED others

NextScore == Detect

InitDetect ==
    /\ \E n \in 0..MaxModels : \E ids \in IdOrders(n) :
          \E attrs \in [1..n -> ListedAttrs] :
             models = ModelList(ids, attrs)
    /\ context \in ListedContexts
    /\ ret = <<>>
    /\ Idle
    /\ Unused

NextDetect == Detect

SpecDetect == InitDetect /\ [][NextDetect]_vars

SpecScore == InitScore /\ [][NextScore]_vars

-----------------------------------------------------------------------------
(* The stores.  A column holds <<>> (NULL) or <<value>>. *)

Null == <<>>
Some(v) == <<v>>

(* INSERT INTO processing_logs: the columns create_log does not name are NULL *)
CreateLog(table, log_id, document_id, model_name, model_confidence, status, raw_metadata) ==
    [id \in DOMAIN table \cup {log_id} |->
        IF id = log_id
        THEN [document_id |-> Some(document_id),
              model_name |-> Some(model_name),
              model_confidence |-> Some(model_confidence),
              status |-> Some(status),
              finished_at |-> Null, duration_ms |-> Null,
              warnings_count |-> Null, errors_count |-> Null,
              error_summary |-> Null,
              raw_metadata |-> Some(raw_metadata)]
        ELSE table[id]]

UpdateLogSkippingZero(table, log_id, changes) ==
    [id \in DOMAIN table |->
        IF id = log_id
        THEN [c \in DOMAIN table[id] |->
                 IF /\ c \in DOMAIN changes /\ changes[c] # Null
                    /\ ~(c \in {"duration_ms", "warnings_count", "errors_count"}
                         /\ changes[c] = Some(0))
                 THEN changes[c] ELSE table[id][c]]
        ELSE table[id]]

(* UPDATE processing_logs SET <every argument that is not None> WHERE id = ? *)
UpdateLog(table, log_id, changes) ==
    [id \in DOMAIN table |->
        IF id = log_id
        THEN [c \in DOMAIN table[id] |->
                 IF c \in DOMAIN changes /\ changes[c] # Null
                 THEN changes[c] ELSE table[id][c]]
        ELSE table[id]]

(* INSERT INTO parsed_documents ... ON CONFLICT(document_id) DO UPDATE *)
Upsert(table, document_id, status, model_name, model_confidence, warnings, missing_fields, payload) ==
    [id \in DOMAIN table \cup {document_id} |->
        IF id = document_id
        THEN [status |-> status,
              model_name |-> Some(model_name),
              model_confidence |-> Some(model_confidence),
              warnings |-> IF warnings = Null THEN <<>> ELSE warnings[1],
              missing_fields |->
                  IF missing_fields = Null THEN <<>> ELSE missing_fields[1],
              canonical |-> payload]
        ELSE table[id]]

-----------------------------------------------------------------------------
(* PipelineRunner *)

Threshold == Frac(ThresholdNum, ThresholdDen)

LowConfidence == <<"fallback", "low_confidence">>

LowConfidenceWarning == "Model confidence below threshold; using generic fallback"

REQUIRED_FIELDS ==
    <<"customer.name", "customer.tax_id", "order.order_number",
      "order.issue_date", "items">>

(* line 74: [m for m in list_models() if m.enabled and m.status == "active"] *)
ActiveModels(ms) ==
    LET Active(m) == m.enabled /\ m.status = "active" IN SelectSeq(ms, Active)

(* registry.get_by_name(name): the definition stored under that id, or None *)
GetByName(ms, name) ==
    LET found == SelectSeq(ms, LAMBDA m : m.model_id = name)
    IN  IF found = <<>> THEN Null ELSE Some(found[1])

DetectModelAnyName(ctx, active, registry, model_override) ==
    IF model_override # None
    THEN ModelDetection(model_override, One,
             << <<"override", model_override>> >>,
             <<[type |-> "override", value |-> model_override, score |-> 1]>>,
             TRUE)
    ELSE detect(ctx, active)

(* _detect_model *)
DetectModel(ctx, active, registry, model_override) ==
    IF model_override # None /\ GetByName(registry, model_override) # Null
    THEN ModelDetection(GetByName(registry, model_override)[1].model_id, One,
             << <<"override", model_override>> >>,
             <<[type |-> "override", value |-> model_override, score |-> 1]>>,
             TRUE)
    ELSE detect(ctx, active)

(* _resolve_model: <<>> stands for raise ValueError("No models registered") *)
ResolveModel(ms, model_id) ==
    LET found == SelectSeq(ms, LAMBDA m : m.model_id = model_id)
    IN  IF found # <<>> THEN Some(found[1])
        ELSE IF ms # <<>> THEN Some(ms[1])
        ELSE Null

ApplyConfidenceFallbackNever(ms, d, m) == <<d, m>>

(* _apply_confidence_fallback *)
ApplyConfidenceFallback(ms, d, m) ==
    IF ~d.overridden /\ Less(d.confidence, Threshold)
    THEN LET fallback == ResolveModel(ms, "generic")[1] IN
         IF fallback.model_id # m.model_id
         THEN <<ModelDetection(fallback.model_id, d.confidence,
                    Append(d.reasons, LowConfidence),
                    Append(d.evidence,
                           [type |-> "fallback", value |-> fallback.model_id,
                            score |-> 0]),
                    FALSE),
                fallback>>
         ELSE <<d, m>>
    ELSE <<d, m>>

(* str(uuid4()) of the invocation *)
Uuid(r) == CASE r = 1 -> "uuid-1" [] r = 2 -> "uuid-2" [] OTHER -> "uuid-n"

(* line 70: parse_input.document_id or str(uuid4()) *)
DocumentId(r) ==
    IF input[r].document_id # None THEN input[r].document_id ELSE Uuid(r)

LogIdOfFirstRun(r) == 1

(* line 82: log_id = str(uuid4()), one per invocation *)
LogId(r) == r

DetectorMetadata(d) ==
    [detector_reasons |-> d.reasons, detector_evidence |-> d.evidence,
     detector_overridden |-> d.overridden]

NoException == "<no exception>"

(* lines 67-99: context, detection, resolution, fallback, create_log *)
Start(r) ==
    /\ pc[r] = "start"
    /\ LET active == ActiveModels(models)
           detected == DetectModel(input[r].context, active, models,
                                   input[r].model_override)
           resolved == ResolveModel(active, detected.model_id)
       IN  IF resolved = Null
           THEN /\ pc' = [pc EXCEPT ![r] = "raised"]
                /\ exc' = [exc EXCEPT ![r] = "ValueError: No models registered"]
                /\ UNCHANGED <<detection, model, logs>>
           ELSE LET pair == ApplyConfidenceFallback(active, detected,
                                                    resolved[1])
                IN  /\ detection' = [detection EXCEPT ![r] = Some(pair[1])]
                    /\ model' = [model EXCEPT ![r] = Some(pair[2])]
                    /\ logs' = CreateLog(logs, LogId(r), DocumentId(r),
                                   pair[2].model_id, pair[1].confidence,
                                   "partial", DetectorMetadata(pair[1]))
                    /\ pc' = [pc EXCEPT ![r] = "parsing"]
                    /\ UNCHANGED exc
    /\ UNCHANGED <<models, context, ret, input, canonical, docs, audit>>
    /\ UNCHANGED others

(* what a normalizer can hand back: result["parsing"] with or without a    *)
(* status and warnings, and the output's own warnings                        *)
NormalizerOutputs ==
    {[status |-> Null, parsing_warnings |-> Null, warnings |-> w] :
        w \in {<<>>, <<"w">>}}
    \cup {[status |-> Some(st), parsing_warnings |-> Some(w), warnings |-> w] :
            st \in {"success", "failed"}, w \in {<<>>, <<"w">>}}

LowConfidenceParsingKept(parsing, warnings, d) == parsing

(* lines 129-137: parsing of the result after the runner went over it *)
LowConfidenceParsing(parsing, warnings, d) ==
    IF LowConfidence \in Range(d.reasons)
    THEN LET ws == IF parsing.warnings # Null /\ parsing.warnings[1] # <<>>
                   THEN parsing.warnings[1]
                   ELSE warnings
         IN  [status |-> Some("partial"),
              warnings |-> Some(Append(ws, LowConfidenceWarning))]
    ELSE parsing

(* line 135: warnings.append(...) grows the output's own list when it is   *)
(* the list picked on line 134                                               *)
OutputWarnings(parsing, warnings, d) ==
    IF /\ LowConfidence \in Range(d.reasons)
       /\ (parsing.warnings = Null \/ parsing.warnings[1] = <<>>)
       /\ warnings # <<>>
    THEN Append(warnings, LowConfidenceWarning)
    ELSE warnings

(* lines 101-153: parser and normalizer return; the runner writes the model  *)
(* confidence and the parsing block into the result, and stores it           *)
ParseOk(r) ==
    /\ pc[r] = "parsing"
    /\ \E out \in NormalizerOutputs :
          LET d == detection[r][1]
              m == model[r][1]
              produced == [status |-> out.status,
                           warnings |-> out.parsing_warnings]
              parsing == LowConfidenceParsing(produced, out.warnings, d)
              result == [confidence |-> d.confidence, parsing |-> parsing]
          IN  /\ canonical' = [canonical EXCEPT ![r] =
                     Some([model_id |-> m.model_id, result |-> result,
                           warnings |->
                               OutputWarnings(produced, out.warnings, d)])]
              /\ docs' = Upsert(docs, DocumentId(r), parsing.status,
                             m.model_id, d.confidence, parsing.warnings,
                             Null, result)
    /\ pc' = [pc EXCEPT ![r] = "stored"]
    /\ UNCHANGED <<models, context, ret, input, detection, model, exc, logs,
                   audit>>
    /\ UNCHANGED others

Raisable == {"parser: boom", "normalizer: boom"}

(* lines 102-113: parser.parse or normalizer.normalize raises *)
ParseRaise(r) ==
    /\ pc[r] = "parsing"
    /\ \E e \in Raisable : exc' = [exc EXCEPT ![r] = e]
    /\ pc' = [pc EXCEPT ![r] = "except"]
    /\ UNCHANGED <<models, context, ret, input, detection, model, canonical,
                   logs, docs, audit>>
    /\ UNCHANGED others

AuditRecord(m, d, document_id, warnings) ==
    [model_id |-> m.model_id, warnings |-> warnings,
     detector_confidence |-> d.confidence, detector_reasons |-> d.reasons,
     detector_overridden |-> d.overridden, document_id |-> document_id]

(* lines 186-210: the arguments of update_log on the way out *)
FinishedLog(c, m, d, document_id) ==
    [status |-> IF c.result.parsing.status # Null
                THEN c.result.parsing.status ELSE Some("partial"),
     finished_at |-> Some("now"), duration_ms |-> Some(0),
     warnings_count |-> Some(Len(c.warnings)),
     errors_count |-> Some(0),
     error_summary |-> Null,
     model_name |-> Some(m.model_id),
     model_confidence |-> Some(d.confidence),
     document_id |-> Some(document_id),
     raw_metadata |-> Some(DetectorMetadata(d))]

(* lines 155-212: audit record, update_log, return canonical *)
Finish(r) ==
    /\ pc[r] = "stored"
    /\ audit' = Append(audit, AuditRecord(model[r][1], detection[r][1],
                                          DocumentId(r),
                                          canonical[r][1].warnings))
    /\ logs' = UpdateLog(logs, LogId(r),
                   FinishedLog(canonical[r][1], model[r][1], detection[r][1],
                               DocumentId(r)))
    /\ pc' = [pc EXCEPT ![r] = "returned"]
    /\ UNCHANGED <<models, context, ret, input, detection, model, exc,
                   canonical, docs>>
    /\ UNCHANGED others

(* normalize_legacy_to_canonical of {"result": {}, "warnings": [str(exc)]}: *)
(* no result body, so status failed and every required field missing         *)
FailedCanonical(e, m, d) ==
    [confidence |-> d.confidence,
     parsing |-> [status |-> Some("failed"), warnings |-> Some(<<e>>)],
     missing_fields |-> REQUIRED_FIELDS]

(* lines 214-246: the failed parsed-document record *)
FailUpsert(r) ==
    /\ pc[r] = "except"
    /\ LET payload == FailedCanonical(exc[r], model[r][1], detection[r][1])
       IN  docs' = Upsert(docs, DocumentId(r), Some("failed"),
                       model[r][1].model_id, detection[r][1].confidence,
                       payload.parsing.warnings, Some(payload.missing_fields),
                       payload)
    /\ pc' = [pc EXCEPT ![r] = "except_stored"]
    /\ UNCHANGED <<models, context, ret, input, detection, model, exc,
                   canonical, logs, audit>>
    /\ UNCHANGED others

FailedLogStatusOnly(e, m, d, document_id) ==
    [status |-> Some("failed"), finished_at |-> Some("now")]

(* lines 247-265: the arguments of update_log in the except branch *)
FailedLog(e, m, d, document_id) ==
    [status |-> Some("failed"),
     finished_at |-> Some("now"), duration_ms |-> Some(0),
     warnings_count |-> Some(0),
     errors_count |-> Some(1),
     error_summary |-> Some(e),
     model_name |-> Some(m.model_id),
     model_confidence |-> Some(d.confidence),
     document_id |-> Some(document_id),
     raw_metadata |-> Some([trace |-> e, document_id |-> document_id])]

(* lines 247-266: update_log, then raise *)
FailLog(r) ==
    /\ pc[r] = "except_stored"
    /\ logs' = UpdateLog(logs, LogId(r),
                   FailedLog(exc[r], model[r][1], detection[r][1],
                             DocumentId(r)))
    /\ pc' = [pc EXCEPT ![r] = "raised"]
    /\ UNCHANGED <<models, context, ret, input, detection, model, exc,
                   canonical, docs, audit>>
    /\ UNCHANGED others

-----------------------------------------------------------------------------
(* The inputs of the runner specification *)

RunModels == 2

(* no rule, a fallback flag, a keyword with two tokens the text never has    *)
(* (1/2 when the keyword is found), a CNPJ with a keyword the text never has *)
(* (3/5 when the CNPJ is found)                                              *)
RegisteredRules ==
    {Rules(<<>>, <<>>, <<>>, <<>>, <<>>, FALSE),
     Rules(<<>>, <<>>, <<>>, <<>>, <<>>, TRUE),
     Rules(<<"LAR">>, <<>>, <<>>, <<>>, <<"pedido", "nota">>, FALSE),
     Rules(<<"brf">>, <<>>, <<"123">>, <<>>, <<>>, FALSE)}

(* of a model that is disabled or not active the runner reads the id only   *)
RegisteredAttrs ==
    ({<<TRUE, "active">>} \X RegisteredRules)
    \cup ((Availability \ {<<TRUE, "active">>})
          \X {Rules(<<>>, <<>>, <<>>, <<>>, <<>>, FALSE)})

RunContexts ==
    {ParseContext(h, {}, <<"123">>, <<"123">>) : h \in SUBSET {"LAR"}}

ParseInput(ctx, model_override, document_id) ==
    [context |-> ctx, model_override |-> model_override,
     document_id |-> document_id]

RunInputs ==
    {ParseInput(ctx, o, id) :
        ctx \in RunContexts, o \in {None, "lar", "nope"}, id \in {None, "d1"}}

(* the registry of the default runner is never empty: its file-backed source *)
(* falls back to one generic model                                           *)
InitRun ==
    /\ \E n \in 1..RunModels : \E ids \in IdOrders(n) :
          \E attrs \in [1..n -> RegisteredAttrs] :
             models = ModelList(ids, attrs)
    /\ context = EmptyContext
    /\ ret = <<>>
    /\ input \in [{1} -> RunInputs]
    /\ pc = [r \in {1} |-> "start"]
    /\ detection = [r \in {1} |-> Null]
    /\ model = [r \in {1} |-> Null]
    /\ exc = [r \in {1} |-> NoException]
    /\ canonical = [r \in {1} |-> Null]
    /\ logs = <<>> /\ docs = <<>> /\ audit = <<>>
    /\ Unused

Next ==
    \E r \in DOMAIN pc :
        \/ Start(r)
        \/ ParseOk(r)
        \/ ParseRaise(r)
        \/ Finish(r)
        \/ FailUpsert(r)
        \/ FailLog(r)

Spec == InitRun /\ [][Next]_vars

-----------------------------------------------------------------------------
(* Properties of detect *)

Usable(m) == m.enabled /\ m.status = "active"

ConfidenceOf(m, ctx) ==
    LET e == Evaluate(m, ctx) IN Confidence(e.score, e.max_score)

(* the positions of the usable models that score above zero *)
Scoring(ms, ctx) ==
    {i \in 1..Len(ms) : Usable(ms[i]) /\ Evaluate(ms[i], ctx).score > 0}

(* C1: detect returns the usable model of highest confidence among those     *)
(* scoring above zero, and among several of highest confidence the one that  *)
(* comes first in the list.                                                  *)
C1_FirstHighestWins ==
    ret # <<>> =>
        LET S == Scoring(models, context) IN
        S # {} =>
            \E w \in S :
                /\ \A j \in S : ~Less(ConfidenceOf(models[w], context),
                                      ConfidenceOf(models[j], context))
                /\ \A j \in S : j < w =>
                        Less(ConfidenceOf(models[j], context),
                             ConfidenceOf(models[w], context))
                /\ ret[1].model_id = models[w].model_id
                /\ ret[1].confidence = ConfidenceOf(models[w], context)

(* two models tie at the top, after a model of lower confidence *)
C1_Witness ==
    /\ ret # <<>>
    /\ \E k, i, j \in Scoring(models, context) :
          /\ k < i /\ i < j
          /\ Less(ConfidenceOf(models[k], context),
                  ConfidenceOf(models[i], context))
          /\ ConfidenceOf(models[i], context) = ConfidenceOf(models[j], context)
          /\ ret[1].model_id = models[i].model_id

(* the claim's arithmetic, read off the rules and the context *)
Hits(values, text) ==
    {i \in 1..Len(values) : values[i] # "" /\ Lower(values[i]) \in text}

Given(values) == {i \in 1..Len(values) : values[i] # ""}

Bit(b, w) == IF b THEN w ELSE 0

ClaimedScore(m, ctx) ==
    LET r == m.detection
        text == {Lower(w) : w \in ctx.head \cup ctx.tail}
        found == Range(ctx.customer_cnpjs) \cup Range(ctx.cnpjs)
    IN    Bit(Hits(r.keywords, text) # {}, 2)
        + Bit(Hits(r.customer_names, text) # {}, 2)
        + Bit(Range(r.customer_cnpjs) \cap found # {}, 3)
        + Bit(Hits(SelectSeq(r.header_regex, LAMBDA x : x \notin MalformedRegex),
                   {Lower(w) : w \in ctx.head}) # {}, 2)
        + Cardinality(Hits(r.required_fields, text))

ClaimedMaxScore(m) ==
    LET r == m.detection
    IN    Bit(Given(r.keywords) # {}, 2)
        + Bit(Given(r.customer_names) # {}, 2)
        + Bit(Given(r.customer_cnpjs) # {}, 3)
        + Bit(Given(r.header_regex) # {}, 2)
        + Cardinality(Given(r.required_fields))

(* C2: for a usable model the confidence detect reports is                   *)
(* score / max(max_score, 1) with score and max_score as the claim computes  *)
(* them (every one of the first four categories counted once, one point per  *)
(* required token found); score <= max_score and the confidence is in [0,1]. *)
C2_ScoreFormula ==
    ret # <<>> =>
        LET m == models[1]
            score == ClaimedScore(m, context)
            max_score == ClaimedMaxScore(m)
        IN  /\ score <= max_score
            /\ ret[1].confidence = Frac(score, Max(max_score, 1))
            /\ ~Less(ret[1].confidence, Zero) /\ ~Less(One, ret[1].confidence)
            /\ score > 0 => ret[1].model_id = m.model_id

(* every category configured, two keywords matching, one of two tokens found *)
C2_Witness ==
    /\ ret # <<>>
    /\ ret[1].confidence = Frac(10, 11)
    /\ Cardinality({i \in 1..Len(ret[1].evidence) :
                        ret[1].evidence[i].type = "keyword"}) = 2

(* C3: with an empty list, or no usable model scoring above zero, detect     *)
(* returns confidence 0.0, the reasons ["no_match"] and one fallback         *)
(* evidence entry.                                                           *)
C3_NoMatchDetection ==
    (ret # <<>> /\ Scoring(models, context) = {}) =>
        /\ ret[1].confidence = Zero
        /\ ret[1].reasons = << <<"no_match">> >>
        /\ Len(ret[1].evidence) = 1
        /\ ret[1].evidence[1].type = "fallback"

(* a non-empty list of usable models, none of which matches *)
C3_Witness ==
    /\ ret # <<>>
    /\ Len(models) >= 2
    /\ \A i \in 1..Len(models) : Usable(models[i])
    /\ \E i \in 1..Len(models) : models[i].detection.keywords # <<>>
    /\ Scoring(models, context) = {}
    /\ ret[1].reasons = << <<"no_match">> >>

C3_WitnessEmpty == ret # <<>> /\ models = <<>> /\ ret[1].model_id = "unknown"

Flagged(ms) ==
    {i \in 1..Len(ms) : Usable(ms[i]) /\ ms[i].detection.fallback}

(* C4 as claimed: with no model scoring above zero the id returned is that   *)
(* of a usable model flagged fallback, else of the first model, else         *)
(* "unknown".                                                                *)
C4_Original ==
    (ret # <<>> /\ Scoring(models, context) = {}) =>
        IF Flagged(models) # {}
        THEN \E i \in Flagged(models) : ret[1].model_id = models[i].model_id
        ELSE IF models # <<>> THEN ret[1].model_id = models[1].model_id
        ELSE ret[1].model_id = "unknown"

Designated(ms) ==
    {i \in 1..Len(ms) :
        Usable(ms[i]) /\ (ms[i].detection.fallback \/ ms[i].model_id = "generic")}

(* C4 amended: the id returned is that of the last usable model that is      *)
(* flagged fallback or has the id generic; with no such model, the id of the *)
(* first model of the list, usable or not; with an empty list, "unknown".    *)
C4_FallbackId ==
    (ret # <<>> /\ Scoring(models, context) = {}) =>
        LET D == Designated(models) IN
        IF D # {}
        THEN \E i \in D : /\ \A j \in D : j <= i
                          /\ ret[1].model_id = models[i].model_id
        ELSE IF models # <<>> THEN ret[1].model_id = models[1].model_id
        ELSE ret[1].model_id = "unknown"

(* an unflagged generic model after a flagged one is the one returned *)
C4_Witness ==
    /\ ret # <<>>
    /\ Scoring(models, context) = {}
    /\ \E i, j \in Designated(models) :
          /\ i < j
          /\ models[i].detection.fallback
          /\ ~models[j].detection.fallback
          /\ ret[1].model_id = models[j].model_id

-----------------------------------------------------------------------------
(* Properties of PipelineRunner.run *)

Entered(r) == pc[r] \in {"parsing", "stored", "except", "except_stored",
                         "returned"}
              \/ (pc[r] = "raised" /\ exc[r] \in Raisable)

(* what the detector returns for the invocation's context *)
Scored(r) == detect(input[r].context, ActiveModels(models))

KnownOverride(r) ==
    /\ input[r].model_override # None
    /\ \E i \in 1..Len(models) : models[i].model_id = input[r].model_override

UnknownOverride(r) ==
    /\ input[r].model_override # None
    /\ \A i \in 1..Len(models) : models[i].model_id # input[r].model_override

FallbackEntry(e) == e.type = "fallback" /\ e.score = 0

(* C5 as claimed: a detection that is no manual override and lies below the  *)
(* threshold makes run use the model generic, keep the confidence and append *)
(* the reason fallback:low_confidence and a fallback evidence entry.         *)
C5_Original ==
    \A r \in DOMAIN pc :
        (Entered(r) /\ ~KnownOverride(r)
            /\ Less(Scored(r).confidence, Threshold)) =>
            /\ model[r][1].model_id = "generic"
            /\ detection[r][1].confidence = Scored(r).confidence
            /\ detection[r][1].reasons = Append(Scored(r).reasons, LowConfidence)
            /\ Len(detection[r][1].evidence) = Len(Scored(r).evidence) + 1
            /\ FallbackEntry(detection[r][1].evidence[Len(detection[r][1].evidence)])

(* the model a low confidence reroutes to *)
RerouteTarget(ms) ==
    IF \E i \in 1..Len(ms) : ms[i].model_id = "generic"
    THEN CHOOSE m \in Range(ms) : m.model_id = "generic"
    ELSE ms[1]

(* C5 amended: a detection that is no manual override and lies below the     *)
(* threshold makes run use the enabled, active model with id generic, or the *)
(* first enabled, active model when there is none; the confidence is kept;   *)
(* the reason fallback:low_confidence and a fallback evidence entry are      *)
(* appended exactly when that model is not the one the detector returned,    *)
(* and otherwise the detection is left as it is.                             *)
C5_LowConfidenceReroute ==
    \A r \in DOMAIN pc :
        (Entered(r) /\ ~KnownOverride(r)
            /\ Less(Scored(r).confidence, Threshold)) =>
            LET target == RerouteTarget(ActiveModels(models))
                d == detection[r][1]
            IN  /\ model[r][1] = target
                /\ d.confidence = Scored(r).confidence
                /\ ~d.overridden
                /\ IF target.model_id # Scored(r).model_id
                   THEN /\ d.model_id = target.model_id
                        /\ d.reasons = Append(Scored(r).reasons, LowConfidence)
                        /\ Len(d.evidence) = Len(Scored(r).evidence) + 1
                        /\ FallbackEntry(d.evidence[Len(d.evidence)])
                        /\ d.evidence[Len(d.evidence)].value = target.model_id
                   ELSE d = Scored(r)

(* a positive match below the threshold is rerouted to generic *)
C5_Witness ==
    \E r \in DOMAIN pc :
        /\ Entered(r) /\ ~KnownOverride(r)
        /\ Less(Zero, Scored(r).confidence)
        /\ Less(Scored(r).confidence, Threshold)
        /\ Scored(r).model_id # "generic"
        /\ model[r][1].model_id = "generic"
        /\ LowConfidence \in Range(detection[r][1].reasons)

(* C6: the result returned by a run rerouted for low confidence has parsing  *)
(* status partial and carries the low-confidence warning, whatever the       *)
(* normalizer produced.                                                      *)
C6_ReroutedIsPartial ==
    \A r \in DOMAIN pc :
        (pc[r] = "returned" /\ LowConfidence \in Range(detection[r][1].reasons))
        => LET parsing == canonical[r][1].result.parsing
           IN  /\ parsing.status = Some("partial")
               /\ parsing.warnings # Null
               /\ LowConfidenceWarning \in Range(parsing.warnings[1])

(* a rerouted run whose normalizer said success: the stored record is the    *)
(* returned payload                                                          *)
C6_Witness ==
    \E r \in DOMAIN pc :
        /\ pc[r] = "returned"
        /\ LowConfidence \in Range(detection[r][1].reasons)
        /\ canonical[r][1].result.parsing.status = Some("partial")
        /\ docs[DocumentId(r)].canonical = canonical[r][1].result
        /\ logs[LogId(r)].status = Some("partial")
        /\ Len(canonical[r][1].result.parsing.warnings[1]) = 2

(* C7: an override naming a model of the registry yields confidence 1.0,     *)
(* overridden = True, the reasons ["override:<name>"], no low-confidence     *)
(* fallback, and the overriding model is the one used for parsing and        *)
(* reported by the result and by the audit record.                           *)
C7_OverrideUsesNamedModel ==
    \A r \in DOMAIN pc :
        KnownOverride(r) =>
            /\ Entered(r) =>
                /\ detection[r][1].confidence = One
                /\ detection[r][1].overridden
                /\ detection[r][1].reasons =
                       << <<"override", input[r].model_override>> >>
                /\ model[r][1].model_id = input[r].model_override
            /\ pc[r] = "returned" =>
                /\ canonical[r][1].model_id = input[r].model_override
                /\ audit[Len(audit)].model_id = input[r].model_override

(* C8: an override naming no model of the registry selects the model,        *)
(* confidence and reasons of the same input without override, and the        *)
(* detection is not overridden.                                              *)
C8_UnknownOverrideIgnored ==
    \A r \in DOMAIN pc :
        (UnknownOverride(r) /\ Entered(r)) =>
            LET active == ActiveModels(models)
                plain == Scored(r)
                chosen == ApplyConfidenceFallback(active, plain,
                              ResolveModel(active, plain.model_id)[1])
            IN  /\ detection[r][1] = chosen[1]
                /\ model[r][1] = chosen[2]
                /\ ~detection[r][1].overridden

(* an unknown override and a positive match that is kept *)
C8_Witness ==
    \E r \in DOMAIN pc :
        /\ UnknownOverride(r) /\ Entered(r)
        /\ Less(Zero, detection[r][1].confidence)
        /\ ~Less(detection[r][1].confidence, Threshold)
        /\ model[r][1].model_id = detection[r][1].model_id
        /\ Len(ActiveModels(models)) >= 2
        /\ model[r][1] # ActiveModels(models)[1]

C9_SameException ==
    [][\A r \in DOMAIN pc :
          pc[r] \in {"except", "except_stored"} => exc'[r] = exc[r]]_vars

C10_AlwaysAudited ==
    \A r \in DOMAIN pc :
        pc[r] \in {"returned", "raised"} =>
            /\ LogId(r) \in DOMAIN logs
            /\ logs[LogId(r)].document_id = Some(DocumentId(r))
            /\ DocumentId(r) \in DOMAIN docs

-----------------------------------------------------------------------------
(* CompositeModelRegistry over sources that each hold a dict id -> model *)

MaxSources == 2

(* d[model.model_id] = model on a dict kept in insertion order: a key that  *)
(* is already there keeps its place and gets the new value                  *)
SetItem(d, m) ==
    IF \E i \in 1..Len(d) : d[i].model_id = m.model_id
    THEN [i \in 1..Len(d) |-> IF d[i].model_id = m.model_id THEN m ELSE d[i]]
    ELSE Append(d, m)

RECURSIVE SetItems(_, _)
SetItems(d, ms) ==
    IF ms = <<>> THEN d ELSE SetItems(SetItem(d, Head(ms)), Tail(ms))

(* CompositeModelRegistry.list_models *)
RECURSIVE ListModelsFrom(_, _, _)
ListModelsFrom(i, d, regs) ==
    IF i > Len(regs) THEN d
    ELSE ListModelsFrom(i + 1, SetItems(d, regs[i]), regs)

list_models(regs) == ListModelsFrom(1, <<>>, regs)

(* CompositeModelRegistry.get *)
RECURSIVE GetFrom(_, _, _)
GetFrom(i, regs, model_id) ==
    IF i > Len(regs) THEN Null
    ELSE IF GetByName(regs[i], model_id) # Null
         THEN GetByName(regs[i], model_id)
         ELSE GetFrom(i + 1, regs, model_id)

get(regs, model_id) == GetFrom(1, regs, model_id)

(* what one source lists: no id twice, a definition told from another of    *)
(* the same id by its enabled flag and its fallback flag                    *)
SourceIds == {<<>>, <<"generic">>, <<"lar">>, <<"generic", "lar">>,
              <<"lar", "generic">>}

SourceAttrs ==
    {<<TRUE, "active">>, <<FALSE, "active">>}
    \X {Rules(<<>>, <<>>, <<>>, <<>>, <<>>, fb) : fb \in BOOLEAN}

Sources ==
    UNION {{ModelList(ids, attrs) : attrs \in [1..Len(ids) -> SourceAttrs]} :
              ids \in SourceIds}

LookedUp == {"generic", "lar", "nope"}

InitRegistry ==
    /\ \E n \in 1..MaxSources : registries \in [1..n -> Sources]
    /\ models = <<>>
    /\ context = EmptyContext
    /\ ret = <<>>
    /\ Idle
    /\ file = <<>> /\ db = <<>> /\ arg = <<>>

(* a call of list_models() *)
ListModels ==
    /\ ret = <<>>
    /\ ret' = <<[op |-> "list_models", model_id |-> None,
                 value |-> list_models(registries)]>>
    /\ UNCHANGED <<models, context, input, pc, detection, model, exc,
                   canonical, logs, docs, audit>>
    /\ UNCHANGED others

(* a call of get(model_id) *)
GetModel ==
    /\ ret = <<>>
    /\ \E id \in LookedUp :
          ret' = <<[op |-> "get", model_id |-> id,
                    value |-> get(registries, id)]>>
    /\ UNCHANGED <<models, context, input, pc, detection, model, exc,
                   canonical, logs, docs, audit>>
    /\ UNCHANGED others

NextRegistry == ListModels \/ GetModel

SpecRegistry == InitRegistry /\ [][NextRegistry]_vars

(* Properties of the composite registry *)

(* the definition of the id in the earliest source that has it *)
RECURSIVE Earliest(_, _, _)
Earliest(i, regs, id) ==
    IF i > Len(regs) THEN <<>>
    ELSE LET here == SelectSeq(regs[i], LAMBDA m : m.model_id = id)
         IN  IF here # <<>> THEN <<here[1]>> ELSE Earliest(i + 1, regs, id)

(* C11: for every id, list_models() and get(id) give the definition of the  *)
(* earliest source that defines it, and list_models() holds each id once.   *)
C11_EarliestSourceWins ==
    ret # <<>> =>
        /\ ret[1].op = "get" =>
              ret[1].value = Earliest(1, registries, ret[1].model_id)
        /\ ret[1].op = "list_models" =>
              /\ \A i \in 1..Len(ret[1].value) :
                    <<ret[1].value[i]>> =
                        Earliest(1, registries, ret[1].value[i].model_id)
              /\ \A i, j \in 1..Len(ret[1].value) :
                    ret[1].value[i].model_id = ret[1].value[j].model_id
                        => i = j

-----------------------------------------------------------------------------
(* YamlModelRegistry: construction and reload *)

MaxItems == 2
MaxWrites == 1

(* str.strip() on the ids of the model *)
Strip(w) == CASE w = " lar " -> "lar" [] w = " " -> "" [] OTHER -> w

NoRules == Rules(<<>>, <<>>, <<>>, <<>>, <<>>, FALSE)

(* _build_model: <<>> stands for None.  An absent key of the item is None. *)
BuildModel(item) ==
    IF item.kind # "dict" THEN Null
    ELSE LET model_id == Strip(IF item.id = None THEN "" ELSE item.id)
             status == Lower(IF item.status = None THEN "active"
                             ELSE item.status)
             enabled == IF item.status # None THEN status = "active"
                        ELSE item.enabled # "false"
         IN  IF model_id = "" THEN Null
             ELSE Some(ModelDefinition(model_id, enabled, status, NoRules))

DefaultModels == <<ModelDefinition("generic", TRUE, "active", NoRules)>>

(* _load_yaml and line 49: the value iterated by the for loop of reload;   *)
(* "null" is the None that a models key without entries loads as          *)
ModelsData(f) ==
    CASE f.state \in {"missing", "unreadable", "empty", "not_a_dict",
                      "no_models_key"} -> [iterable |-> TRUE, items |-> <<>>]
      [] f.state = "models_null" -> [iterable |-> FALSE, items |-> <<>>]
      [] OTHER -> [iterable |-> TRUE, items |-> f.models]

(* lines 50-53: self._models[model.model_id] = model for every built model *)
RECURSIVE BuildAll(_, _)
BuildAll(d, items) ==
    IF items = <<>> THEN d
    ELSE LET built == BuildModel(Head(items))
         IN  BuildAll(IF built = Null THEN d ELSE SetItem(d, built[1]),
                      Tail(items))

(* reload: the catalog it leaves and the exception it ends with, if any;   *)
(* line 47 has emptied the catalog before the loop raises                  *)
reload(f) ==
    LET data == ModelsData(f)
        built == BuildAll(<<>>, data.items)
    IN  IF ~data.iterable
        THEN [_models |-> <<>>, raised |-> "TypeError"]
        ELSE [_models |-> IF built = <<>> THEN DefaultModels ELSE built,
              raised |-> None]

Items ==
    {[kind |-> "other", id |-> None, status |-> None, enabled |-> None]}
    \cup {[kind |-> "dict", id |-> id, status |-> st, enabled |-> en] :
            id \in {None, " ", "generic", " lar "},
            st \in {None, "Active", "inactive"},
            en \in {None, "false"}}

File(state, items, writes) ==
    [state |-> state, models |-> items, writes |-> writes]

FileStates ==
    {"missing", "unreadable", "empty", "not_a_dict", "no_models_key",
     "models_null"}

FirstFiles ==
    {File(st, <<>>, 0) : st \in FileStates}
    \cup {File("models_list", items, 0) : items \in SeqsUpTo(Items, MaxItems)}

Constructed == ret # <<>> /\ ~(ret[1].call = "__init__" /\ ret[1].raised # None)

InitYaml ==
    /\ file \in FirstFiles
    /\ models = <<>>
    /\ context = EmptyContext
    /\ ret = <<>>
    /\ Idle
    /\ registries = <<>> /\ db = <<>> /\ arg = <<>>

(* YamlModelRegistry(path): __init__ calls reload *)
Construct ==
    /\ ret = <<>>
    /\ models' = reload(file)._models
    /\ ret' = <<[call |-> "__init__", raised |-> reload(file).raised,
                 read |-> file.writes]>>
    /\ UNCHANGED <<context, input, pc, detection, model, exc, canonical,
                   logs, docs, audit, registries, file, db, arg>>

(* the models file is edited, removed or made unreadable *)
Rewrite ==
    /\ Constructed
    /\ file.writes < MaxWrites
    /\ \/ \E st \in FileStates : file' = File(st, <<>>, file.writes + 1)
       \/ \E item \in Items :
             file' = File("models_list", <<item>>, file.writes + 1)
    /\ UNCHANGED <<models, context, ret, input, pc, detection, model, exc,
                   canonical, logs, docs, audit, registries, db, arg>>

(* registry.reload() *)
Reload ==
    /\ Constructed
    /\ models' = reload(file)._models
    /\ ret' = <<[call |-> "reload", raised |-> reload(file).raised,
                 read |-> file.writes]>>
    /\ UNCHANGED <<context, input, pc, detection, model, exc, canonical,
                   logs, docs, audit, registries, file, db, arg>>

NextYaml == Construct \/ Rewrite \/ Reload

SpecYaml == InitYaml /\ [][NextYaml]_vars

(* Properties of the file-backed registry *)

(* the file holds an entry that is a mapping with a non-blank id *)
YieldsDefinition(f) ==
    /\ f.state = "models_list"
    /\ \E i \in 1..Len(f.models) :
          /\ f.models[i].kind = "dict"
          /\ f.models[i].id \notin {None, "", " "}

(* the registry exists and its last construction or reload read this file *)
Loaded == Constructed /\ ret[1].read = file.writes

(* C12: once the registry is constructed, after the construction and after *)
(* every reload the catalog is not empty, and it is the one default         *)
(* generic model when the file gives no valid definition.                   *)
C12_NeverEmpty ==
    /\ Constructed => models # <<>>
    /\ (Loaded /\ ~YieldsDefinition(file)) =>
          models = <<ModelDefinition("generic", TRUE, "active", NoRules)>>

-----------------------------------------------------------------------------
(* ParserModelRepository: the parser_models and parser_model_versions      *)
(* tables.  A row's id is its position in the table (AUTOINCREMENT).  A     *)
(* dict or list argument is "{}" / "[]" when empty, None when not given.    *)

MaxVersions == 3

(* f"v{number}" *)
VersionLabel(number) == <<"v", number>>

(* _row_to_model's join: the position of the model named name, 0 if none *)
ModelRow(d, name) ==
    IF \E i \in 1..Len(d.models) : d.models[i].name = name
    THEN CHOOSE i \in 1..Len(d.models) : d.models[i].name = name
    ELSE 0

(* _next_version: SELECT ... WHERE model_id = ? ORDER BY id DESC LIMIT 1,   *)
(* then int(latest.lstrip("v")) + 1                                         *)
NextVersion(d, model_id) ==
    LET own == {i \in 1..Len(d.versions) : d.versions[i].model_id = model_id}
    IN  IF own = {} THEN VersionLabel(1)
        ELSE LET latest ==
                     d.versions[CHOOSE i \in own : \A j \in own : j <= i]
             IN  VersionLabel(latest.version[2] + 1)

InsertVersionInPlace(d, model_id, version, detection_rules, mapping_config, examples) ==
    [d EXCEPT !.versions =
        IF Len(@) = 0 THEN @
        ELSE [@ EXCEPT ![Len(@)] =
                 [model_id |-> model_id, version |-> version,
                  detection_rules |-> detection_rules,
                  mapping_config |-> mapping_config,
                  examples |-> examples]]]

(* _insert_version followed by UPDATE parser_models SET current_version_id *)
InsertVersion(d, model_id, version, detection_rules, mapping_config, examples) ==
    [d EXCEPT
        !.versions = Append(@,
            [model_id |-> model_id, version |-> version,
             detection_rules |-> IF detection_rules = None THEN "{}"
                                 ELSE detection_rules,
             mapping_config |-> IF mapping_config = None THEN "{}"
                                ELSE mapping_config,
             examples |-> IF examples = None THEN "[]" ELSE examples]),
        !.models[model_id].current_version_id = Len(d.versions) + 1]

(* Python's "a or b" on a dict or list argument *)
Or(a, b) == IF a \in {None, "{}", "[]"} THEN b ELSE a

EmptyDb == [models |-> <<>>, versions |-> <<>>, supplied |-> <<>>]

ModelNames == {"lar", "brf"}
DetectionRules == {"{}", "rules-1"}
MappingConfigs == {"mapping-1"}
Examples == {"[]", "examples-1"}

InitVersions ==
    /\ db = EmptyDb
    /\ models = <<>>
    /\ context = EmptyContext
    /\ ret = <<>>
    /\ Idle
    /\ registries = <<>> /\ file = <<>> /\ arg = <<>>

VersionFrame ==
    UNCHANGED <<models, context, ret, input, pc, detection, model, exc,
                canonical, logs, docs, audit, registries, file, arg>>

(* create_model; the UNIQUE constraint on name refuses a second model of   *)
(* that name.  supplied counts, per model, the later calls that gave rules, *)
(* a mapping or examples (a history of the calls, not a column).            *)
CreateModel ==
    /\ Len(db.versions) < MaxVersions
    /\ \E name \in ModelNames, dr \in DetectionRules, mc \in MappingConfigs :
          /\ ModelRow(db, name) = 0
          /\ LET model_id == Len(db.models) + 1
                 inserted ==
                     [db EXCEPT
                         !.models = Append(@,
                             [name |-> name, display_name |-> None,
                              active |-> TRUE, current_version_id |-> 0]),
                         !.supplied = Append(@, 0)]
             IN  db' = InsertVersion(inserted, model_id, VersionLabel(1),
                                     dr, mc, None)
    /\ VersionFrame

(* update_model *)
UpdateModel ==
    /\ \E name \in ModelNames, display_name \in {None, "Label"},
          active \in {None, "false"},
          dr \in DetectionRules \cup {None},
          mc \in MappingConfigs \cup {None},
          ex \in Examples \cup {None} :
          LET model_id == ModelRow(db, name)
              creates == dr # None \/ mc # None \/ ex # None
          IN  /\ model_id # 0
              /\ creates => Len(db.versions) < MaxVersions
              /\ LET cur == db.versions[db.models[model_id].current_version_id]
                     named == IF display_name # None
                              THEN [db EXCEPT !.models[model_id].display_name
                                                  = display_name]
                              ELSE db
                     flagged == IF active # None
                                THEN [named EXCEPT !.models[model_id].active
                                                       = FALSE]
                                ELSE named
                 IN  db' = IF creates
                           THEN [InsertVersion(flagged, model_id,
                                     NextVersion(flagged, model_id),
                                     Or(dr, cur.detection_rules),
                                     Or(mc, cur.mapping_config),
                                     Or(ex, cur.examples))
                                 EXCEPT !.supplied[model_id] = @ + 1]
                           ELSE flagged
    /\ VersionFrame

(* add_version *)
AddVersion ==
    /\ Len(db.versions) < MaxVersions
    /\ \E name \in ModelNames, dr \in DetectionRules, mc \in MappingConfigs,
          ex \in Examples \cup {None} :
          LET model_id == ModelRow(db, name)
          IN  /\ model_id # 0
              /\ db' = [InsertVersion(db, model_id, NextVersion(db, model_id),
                                      dr, mc, ex)
                        EXCEPT !.supplied[model_id] = @ + 1]
    /\ VersionFrame

NextVersions == CreateModel \/ UpdateModel \/ AddVersion

SpecVersions == InitVersions /\ [][NextVersions]_vars

(* Properties of the model store *)

(* the ids of the version records of a model, oldest first *)
RECURSIVE VersionIds(_, _, _)
VersionIds(i, d, model_id) ==
    IF i > Len(d.versions) THEN <<>>
    ELSE (IF d.versions[i].model_id = model_id THEN <<i>> ELSE <<>>)
         \o VersionIds(i + 1, d, model_id)

VersionsAreNumbered ==
    \A m \in 1..Len(db.models) :
        LET ids == VersionIds(1, db, m)
        IN  /\ Len(ids) = db.supplied[m] + 1
            /\ \A k \in 1..Len(ids) : db.versions[ids[k]].version = <<"v", k>>
            /\ db.models[m].current_version_id = ids[Len(ids)]

VersionsAreKept ==
    /\ Len(db'.versions) >= Len(db.versions)
    /\ \A i \in 1..Len(db.versions) : db'.versions[i] = db.versions[i]

(* C13: a model created and then given n calls that supply rules, a mapping *)
(* or examples has the n+1 version records v1..v(n+1), its current version  *)
(* is the last of them, and no step changes or removes a version record     *)
(* (so a call that only renames or deactivates adds none).                  *)
C13_VersionsAppendOnly == [](VersionsAreNumbered) /\ [][VersionsAreKept]_vars

(* a model with three versions, the last written by an update that gave     *)
(* only examples, beside nothing else                                       *)
C13_Witness ==
    /\ Len(db.models) = 1 /\ db.supplied[1] = 2
    /\ Len(db.versions) = 3
    /\ db.versions[3].version = <<"v", 3>>
    /\ db.versions[3].detection_rules = db.versions[2].detection_rules
    /\ db.versions[3].examples # db.versions[2].examples
    /\ db.models[1].display_name = "Label"

-----------------------------------------------------------------------------
(* normalize_legacy_to_canonical (app/normalizers/canonical.py)             *)
(*                                                                         *)
(* A text field holds None or a string.  A number field holds <<>> (None)   *)
(* or <<n>>: quantities and unit prices are counted in thousandths, totals  *)
(* in millionths, so a product of the two is a total and round(x, 6) keeps  *)
(* it as it is.                                                             *)

MaxLines == 2

(* normalize_cnpj: the 14 digits of the value, None when there are not 14 *)
normalize_cnpj(cnpj) ==
    CASE cnpj = "12.345.678/0001-90" -> "12345678000190"
      [] cnpj = "12345678000190" -> "12345678000190"
      [] OTHER -> None

(* normalize_date: ISO dates as they are, D/M/Y reordered, None otherwise *)
normalize_date(date_str) ==
    CASE date_str = "2024-02-10" -> "2024-02-10"
      [] date_str = "2024-02-11" -> "2024-02-11"
      [] date_str = "2024-01-20" -> "2024-01-20"
      [] date_str = "10/02/2024" -> "2024-02-10"
      [] OTHER -> None

(* line 255-256 *)
ItemTotal(quantity, unit_price, total) ==
    IF total = Null /\ quantity # Null /\ unit_price # Null
    THEN Some(quantity[1] * unit_price[1])
    ELSE total

(* _build_items: one item per raw line, in order *)
build_items(lines) ==
    [i \in 1..Len(lines) |->
        [sku |-> lines[i].item_reference_no,
         quantity |-> lines[i].quantity,
         unit_price |-> lines[i].unit_price_excl_vat,
         total |-> ItemTotal(lines[i].quantity, lines[i].unit_price_excl_vat,
                             lines[i].total)]]

RECURSIVE Sum(_)
Sum(ns) == IF ns = <<>> THEN 0 ELSE Head(ns) + Sum(Tail(ns))

(* _build_totals *)
build_totals(items) ==
    LET present == SelectSeq(items, LAMBDA it : it.total # Null)
        totals == [i \in 1..Len(present) |-> present[i].total[1]]
        subtotal == IF totals # <<>> THEN Some(Sum(totals)) ELSE Null
    IN  [subtotal |-> subtotal, total |-> subtotal]

(* _apply_transform on the text values of the model *)
apply_transform(value, transform) ==
    IF value = None \/ transform = None THEN value
    ELSE IF transform = "lower" THEN Lower(value)
    ELSE IF transform = "date" THEN normalize_date(value)
    ELSE value

(* x in (None, "", []) for a text field, a list field, a number field *)
Missing(v) == v = None \/ v = ""

(* a setter that does not look at the value already there *)
set_value_always(c, target, value) ==
    CASE target = "order.order_number" ->
             [c EXCEPT !.order.order_number = value]
      [] target = "order.issue_date" -> [c EXCEPT !.order.issue_date = value]
      [] target = "customer.name" -> [c EXCEPT !.customer.name = value]
      [] OTHER -> c

(* _set_value_if_missing for the scalar targets of the model *)
set_value_if_missing(c, target, value) ==
    CASE target = "order.order_number" /\ Missing(c.order.order_number) ->
             [c EXCEPT !.order.order_number = value]
      [] target = "order.issue_date" /\ Missing(c.order.issue_date) ->
             [c EXCEPT !.order.issue_date = value]
      [] target = "customer.name" /\ Missing(c.customer.name) ->
             [c EXCEPT !.customer.name = value]
      [] OTHER -> c

(* _set_item_values_if_missing: the idx-th value to the idx-th item *)
set_item_values_if_missing(c, target, values) ==
    IF target = "items[].sku"
    THEN [c EXCEPT !.items =
            [i \in 1..Len(@) |->
                IF i <= Len(values) /\ values[i].text # None
                   /\ Missing(@[i].sku)
                THEN [@[i] EXCEPT !.sku = values[i].text] ELSE @[i]]]
    ELSE IF target = "items[].total"
    THEN [c EXCEPT !.items =
            [i \in 1..Len(@) |->
                IF i <= Len(values) /\ values[i].number # Null
                   /\ @[i].total = Null
                THEN [@[i] EXCEPT !.total = values[i].number] ELSE @[i]]]
    ELSE c

(* _get_value_by_path on the legacy root, for the sources of the model *)
get_value_by_path(legacy, source) ==
    CASE source = "order.po" -> legacy.order.po
      [] source = "order.order_date" -> legacy.order.order_date
      [] OTHER -> None

(* _get_list_value_by_path: one value per raw line *)
get_list_value_by_path(legacy, source) ==
    [i \in 1..Len(legacy.lines) |->
        CASE source = "lines[].ref" ->
                 [text |-> legacy.lines[i].ref, number |-> Null]
          [] source = "lines[].valor" ->
                 [text |-> None, number |-> legacy.lines[i].valor]
          [] OTHER -> [text |-> None, number |-> Null]]

RECURSIVE ApplyFields(_, _, _)
ApplyFields(c, legacy, fields) ==
    IF fields = <<>> THEN c
    ELSE LET mapping == Head(fields)
             value == apply_transform(
                          get_value_by_path(legacy, mapping.source),
                          mapping.transform)
         IN  ApplyFields(IF value # None
                         THEN set_value_if_missing(c, mapping.target, value)
                         ELSE c,
                         legacy, Tail(fields))

RECURSIVE ApplyItemFields(_, _, _)
ApplyItemFields(c, legacy, item_fields) ==
    IF item_fields = <<>> THEN c
    ELSE LET mapping == Head(item_fields)
             found == get_list_value_by_path(legacy, mapping.source)
             values == [i \in 1..Len(found) |->
                           [found[i] EXCEPT !.text =
                               apply_transform(@, mapping.transform)]]
         IN  ApplyItemFields(
                 set_item_values_if_missing(c, mapping.target, values),
                 legacy, Tail(item_fields))

(* apply_mapping_config *)
apply_mapping_config(c, legacy, mapping_config) ==
    ApplyItemFields(ApplyFields(c, legacy, mapping_config.fields),
                    legacy, mapping_config.item_fields)

(* a check that takes only None for missing *)
compute_missing_fields_none_only(c) ==
    LET missing ==
            (IF c.customer.name = None THEN {"customer.name"} ELSE {})
            \cup (IF c.customer.tax_id = None THEN {"customer.tax_id"}
                  ELSE {})
            \cup (IF c.order.order_number = None
                  THEN {"order.order_number"} ELSE {})
            \cup (IF c.order.issue_date = None THEN {"order.issue_date"}
                  ELSE {})
            \cup (IF c.items = <<>> THEN {"items"} ELSE {})
    IN  SelectSeq(REQUIRED_FIELDS, LAMBDA f : f \in missing)

(* _compute_missing_fields *)
compute_missing_fields(c) ==
    LET missing ==
            (IF Missing(c.customer.name) THEN {"customer.name"} ELSE {})
            \cup (IF Missing(c.customer.tax_id) THEN {"customer.tax_id"}
                  ELSE {})
            \cup (IF Missing(c.order.order_number)
                  THEN {"order.order_number"} ELSE {})
            \cup (IF Missing(c.order.issue_date) THEN {"order.issue_date"}
                  ELSE {})
            \cup (IF c.items = <<>> THEN {"items"} ELSE {})
    IN  SelectSeq(REQUIRED_FIELDS, LAMBDA f : f \in missing)

(* a status that does not look at the warnings *)
derive_status_without_warnings(result_empty, warnings, missing_fields) ==
    IF result_empty THEN "failed"
    ELSE IF missing_fields # <<>> THEN "partial"
    ELSE "success"

(* _derive_status *)
derive_status(result_empty, warnings, missing_fields) ==
    IF result_empty THEN "failed"
    ELSE IF warnings # <<>> \/ missing_fields # <<>> THEN "partial"
    ELSE "success"

(* the sections a CanonicalOrder cannot be validated without *)
RequiredSections == {"document", "customer", "order", "addresses", "parsing"}

NoCustomer == [name |-> None, tax_id |-> None]
NoOrder == [order_number |-> None, issue_date |-> None]
NoTotals == [subtotal |-> Null, total |-> Null]
NoParsing == [status |-> "partial", warnings |-> <<>>, missing_fields |-> <<>>]

(* a validation that works the missing fields and the status out again *)
model_validate_recomputing(payload) ==
    IF ~(RequiredSections \subseteq payload.sections)
    THEN [raised |-> "ValidationError",
          value |-> [customer |-> NoCustomer, order |-> NoOrder,
                     items |-> <<>>, totals |-> NoTotals,
                     parsing |-> NoParsing]]
    ELSE LET c == [customer |-> payload.body.customer,
                   order |-> payload.body.order,
                   items |-> IF "items" \in payload.sections
                             THEN payload.body.items ELSE <<>>,
                   totals |-> IF "totals" \in payload.sections
                              THEN payload.body.totals ELSE NoTotals,
                   parsing |-> payload.body.parsing]
             missing_fields == compute_missing_fields(c)
         IN  [raised |-> None,
              value |-> [c EXCEPT
                  !.parsing.missing_fields = missing_fields,
                  !.parsing.status =
                      derive_status(FALSE, c.parsing.warnings,
                                    missing_fields)]]

(* CanonicalParseResponse.model_validate: a required section that is not   *)
(* there is a ValidationError, an optional one takes its default, a key     *)
(* the schema does not know is dropped                                      *)
model_validate(payload) ==
    IF ~(RequiredSections \subseteq payload.sections)
    THEN [raised |-> "ValidationError",
          value |-> [customer |-> NoCustomer, order |-> NoOrder,
                     items |-> <<>>, totals |-> NoTotals,
                     parsing |-> NoParsing]]
    ELSE [raised |-> None,
          value |-> [customer |-> payload.body.customer,
                     order |-> payload.body.order,
                     items |-> IF "items" \in payload.sections
                               THEN payload.body.items ELSE <<>>,
                     totals |-> IF "totals" \in payload.sections
                                THEN payload.body.totals ELSE NoTotals,
                     parsing |-> payload.body.parsing]]

(* canonical.model_dump(mode="json") *)
model_dump(c) ==
    [schema_version |-> TRUE,
     sections |-> RequiredSections \cup {"items", "totals"},
     extra |-> FALSE, body |-> c]

normalize_legacy_to_canonical(legacy_output, mapping_config) ==
    IF legacy_output.schema_version THEN model_validate(legacy_output)
    ELSE LET items == build_items(legacy_output.lines)
             built ==
                 [customer |->
                      [name |-> legacy_output.order.name,
                       tax_id |-> normalize_cnpj(legacy_output.order.cnpj)],
                  order |->
                      [order_number |->
                           legacy_output.order.customer_order_number,
                       issue_date |->
                           normalize_date(legacy_output.order.order_date)],
                  items |-> items,
                  totals |-> build_totals(items),
                  parsing |-> [status |-> "partial",
                               warnings |-> legacy_output.warnings,
                               missing_fields |-> <<>>]]
             mapped == IF mapping_config # Null
                       THEN apply_mapping_config(built, legacy_output,
                                                 mapping_config[1])
                       ELSE built
             missing_fields == compute_missing_fields(mapped)
         IN  [raised |-> None,
              value |-> [mapped EXCEPT
                  !.parsing.missing_fields = missing_fields,
                  !.parsing.status =
                      derive_status(legacy_output.empty,
                                    legacy_output.warnings, missing_fields)]]

(* The inputs of the normalizer specification *)

LegacyOrder(name, cnpj, customer_order_number, order_date, po) ==
    [name |-> name, cnpj |-> cnpj,
     customer_order_number |-> customer_order_number,
     order_date |-> order_date, po |-> po]

Line(quantity, unit_price_excl_vat, total, item_reference_no, ref, valor) ==
    [quantity |-> quantity, unit_price_excl_vat |-> unit_price_excl_vat,
     total |-> total, item_reference_no |-> item_reference_no,
     ref |-> ref, valor |-> valor]

(* 5 x 10 without a total; a line with its own total of 7; a line with     *)
(* neither quantity nor total; 0.333 x 1.5 with an empty reference          *)
Lines ==
    {Line(Some(5000), Some(10000), Null, None, "SKU-1", Null),
     Line(Some(5000), Some(10000), Some(7000000), "SKU-0", "SKU-1",
          Some(9000000)),
     Line(Null, Some(10000), Null, None, None, Some(50000000)),
     Line(Some(333), Some(1500), Null, "", "SKU-1", Null)}

LegacyOrders ==
    {LegacyOrder(name, cnpj, number, date, po) :
        name \in {None, "", "Cliente X"},
        cnpj \in {None, "123", "12.345.678/0001-90"},
        number \in {None, "PO-1"},
        date \in {None, "soon", "10/02/2024"},
        po \in {None, "PO-9"}}

Legacy(wrapped, empty, order, lines, warnings) ==
    [schema_version |-> FALSE, wrapped |-> wrapped, empty |-> empty,
     order |-> order, lines |-> lines, warnings |-> warnings]

Mapping(source, target, transform) ==
    [source |-> source, target |-> target, transform |-> transform]

MappingConfigsGiven ==
    {Null,
     Some([fields |-> <<Mapping("order.po", "order.order_number", None)>>,
           item_fields |-> <<Mapping("lines[].ref", "items[].sku", None)>>]),
     Some([fields |-> <<Mapping("order.po", "order.order_number", None),
                        Mapping("order.po", "customer.name", "lower"),
                        Mapping("order.order_date", "order.issue_date",
                                "date")>>,
           item_fields |-> <<Mapping("lines[].valor", "items[].total",
                                     None)>>]),
     Some([fields |-> <<>>,
           item_fields |-> <<Mapping("lines[].ref", "items[].sku", "lower"),
                             Mapping("lines[].valor", "items[].total",
                                     None)>>])}

(* payloads that carry schema_version: whole or with sections left out,     *)
(* with or without a key the schema does not know, the body of a stored     *)
(* document whose status was rewritten after it was normalized              *)
CanonicalPayloads ==
    {[schema_version |-> TRUE, sections |-> sec, extra |-> extra,
      body |-> [customer |-> [name |-> "Cliente X", tax_id |-> None],
                order |-> NoOrder, items |-> <<>>, totals |-> NoTotals,
                parsing |-> [status |-> st, warnings |-> <<>>,
                             missing_fields |-> <<>>]]] :
        sec \in {RequiredSections \cup {"items", "totals"}, RequiredSections,
                 RequiredSections \ {"parsing"}, {}},
        extra \in BOOLEAN, st \in {"success", "partial"}}

Call(legacy_output, mapping_config, fed) ==
    [legacy_output |-> legacy_output, mapping_config |-> mapping_config,
     fed |-> fed]

InitNormalize ==
    /\ \/ \E wrapped \in BOOLEAN, order \in LegacyOrders,
             lines \in SeqsUpTo(Lines, MaxLines),
             warnings \in {<<>>, <<"w">>},
             mapping_config \in MappingConfigsGiven :
             arg = Call(Legacy(wrapped, FALSE, order, lines, warnings),
                        mapping_config, FALSE)
       \/ \E wrapped \in BOOLEAN, warnings \in {<<>>, <<"boom">>},
             mapping_config \in MappingConfigsGiven :
             /\ ~wrapped => warnings = <<>>
             /\ arg = Call(Legacy(wrapped, TRUE,
                               LegacyOrder(None, None, None, None, None),
                               <<>>, warnings),
                           mapping_config, FALSE)
       \/ \E payload \in CanonicalPayloads : arg = Call(payload, Null, FALSE)
    /\ models = <<>>
    /\ context = EmptyContext
    /\ ret = <<>>
    /\ Idle
    /\ registries = <<>> /\ file = <<>> /\ db = <<>>

(* a call of normalize_legacy_to_canonical *)
Normalize ==
    /\ ret = <<>>
    /\ ret' = <<normalize_legacy_to_canonical(arg.legacy_output,
                                              arg.mapping_config)>>
    /\ UNCHANGED <<models, context, input, pc, detection, model, exc,
                   canonical, logs, docs, audit, registries, file, db, arg>>

(* the dumped result is handed to the normalizer again *)
FeedBack ==
    /\ ret # <<>> /\ ret[1].raised = None /\ ~arg.fed
    /\ arg' = Call(model_dump(ret[1].value), arg.mapping_config, TRUE)
    /\ ret' = <<>>
    /\ UNCHANGED <<models, context, input, pc, detection, model, exc,
                   canonical, logs, docs, audit, registries, file, db>>

NextNormalize == Normalize \/ FeedBack

SpecNormalize == InitNormalize /\ [][NextNormalize]_vars

(* What the normalizer built before any mapping was applied, and what it    *)
(* returned                                                                 *)
LegacyCall == ~arg.legacy_output.schema_version
Returned == ret # <<>> /\ LegacyCall
Built == normalize_legacy_to_canonical(arg.legacy_output, Null).value
Out == ret[1].value

ScalarTargets ==
    {"customer.name", "customer.tax_id", "order.order_number",
     "order.issue_date"}

ScalarAt(c, target) ==
    CASE target = "customer.name" -> c.customer.name
      [] target = "customer.tax_id" -> c.customer.tax_id
      [] target = "order.order_number" -> c.order.order_number
      [] target = "order.issue_date" -> c.order.issue_date

(* the value a scalar mapping reads, None when it reads nothing *)
MappedValue(mapping) ==
    apply_transform(get_value_by_path(arg.legacy_output, mapping.source),
                    mapping.transform)

(* the value an item mapping reads for the i-th item *)
MappedItemValue(mapping, i) ==
    LET found == get_list_value_by_path(arg.legacy_output, mapping.source)[i]
    IN  [found EXCEPT !.text = apply_transform(@, mapping.transform)]

(* C14: apply_mapping_config never changes a canonical field that is        *)
(* already non-empty.  Every scalar target and every items[].x target that  *)
(* held a value before the mapping holds the same value after it; a target  *)
(* that was empty either stays as it was or holds the value some mapping    *)
(* to that target read from the source, the i-th source value in the i-th   *)
(* item; and the items are as many as before.                               *)
C14_MappingKeepsValues ==
    (Returned /\ arg.mapping_config # Null) =>
        LET cfg == arg.mapping_config[1]
        IN  /\ Len(Out.items) = Len(Built.items)
            /\ \A t \in ScalarTargets :
                   \/ ScalarAt(Out, t) = ScalarAt(Built, t)
                   \/ /\ Missing(ScalarAt(Built, t))
                      /\ \E k \in 1..Len(cfg.fields) :
                             /\ cfg.fields[k].target = t
                             /\ ScalarAt(Out, t) = MappedValue(cfg.fields[k])
            /\ \A i \in 1..Len(Built.items) :
                   /\ Out.items[i].quantity = Built.items[i].quantity
                   /\ Out.items[i].unit_price = Built.items[i].unit_price
                   /\ \/ Out.items[i].sku = Built.items[i].sku
                      \/ /\ Missing(Built.items[i].sku)
                         /\ \E k \in 1..Len(cfg.item_fields) :
                                /\ cfg.item_fields[k].target = "items[].sku"
                                /\ Out.items[i].sku =
                                       MappedItemValue(cfg.item_fields[k],
                                                       i).text
                   /\ \/ Out.items[i].total = Built.items[i].total
                      \/ /\ Built.items[i].total = Null
                         /\ \E k \in 1..Len(cfg.item_fields) :
                                /\ cfg.item_fields[k].target = "items[].total"
                                /\ Out.items[i].total =
                                       MappedItemValue(cfg.item_fields[k],
                                                       i).number

(* a mapping read "PO-9" for an order number that was already "PO-1", and   *)
(* of two items the one without a sku received its line's reference while   *)
(* the other kept its own                                                   *)
C14_Witness ==
    /\ Returned /\ arg.mapping_config # Null
    /\ arg.legacy_output.order.po = "PO-9"
    /\ Built.order.order_number = "PO-1" /\ Out.order.order_number = "PO-1"
    /\ \E k \in 1..Len(arg.mapping_config[1].fields) :
           arg.mapping_config[1].fields[k].target = "order.order_number"
    /\ Len(Out.items) = 2
    /\ Built.items[1].sku = None /\ Out.items[1].sku = "SKU-1"
    /\ Built.items[2].sku = "SKU-0" /\ Out.items[2].sku = "SKU-0"
    /\ arg.legacy_output.lines[2].ref = "SKU-1"

(* a required field of the returned document is empty *)
EmptyInResult(f) ==
    IF f = "items" THEN Out.items = <<>>
    ELSE ScalarAt(Out, f) = None \/ ScalarAt(Out, f) = ""

(* the order of scenario D: name, tax id and order number, no order date,   *)
(* no lines                                                                 *)
ScenarioD ==
    /\ Returned
    /\ arg.legacy_output.order.name = "Cliente X"
    /\ arg.legacy_output.order.cnpj = "12.345.678/0001-90"
    /\ arg.legacy_output.order.customer_order_number = "PO-1"
    /\ arg.legacy_output.order.order_date = None
    /\ arg.legacy_output.lines = <<>>

(* C15: parsing.missing_fields lists exactly the required fields            *)
(* (customer.name, customer.tax_id, order.order_number, order.issue_date,   *)
(* items) that are empty in the returned document, mapping overrides        *)
(* included, each once and in the order of the required list; the order of  *)
(* scenario D gives exactly [order.issue_date, items].                      *)
C15_MissingFieldsExact ==
    Returned =>
        LET missing_fields == Out.parsing.missing_fields
        IN  /\ \A k \in 1..Len(REQUIRED_FIELDS) :
                   EmptyInResult(REQUIRED_FIELDS[k]) <=>
                       \E j \in 1..Len(missing_fields) :
                           missing_fields[j] = REQUIRED_FIELDS[k]
            /\ \A j \in 1..Len(missing_fields) :
                   \E k \in 1..Len(REQUIRED_FIELDS) :
                       missing_fields[j] = REQUIRED_FIELDS[k]
            /\ \A i, j \in 1..Len(missing_fields) :
                   i < j =>
                       \E k, l \in 1..Len(REQUIRED_FIELDS) :
                           /\ k < l
                           /\ missing_fields[i] = REQUIRED_FIELDS[k]
                           /\ missing_fields[j] = REQUIRED_FIELDS[l]
            /\ ScenarioD =>
                   missing_fields = <<"order.issue_date", "items">>

(* scenario D was normalized, and a mapping that read "PO-9" left the       *)
(* order number alone                                                       *)
C15_Witness ==
    /\ ScenarioD
    /\ arg.mapping_config # Null /\ arg.legacy_output.order.po = "PO-9"
    /\ Out.order.order_number = "PO-1"
    /\ Out.customer.tax_id = "12345678000190"
    /\ Out.parsing.missing_fields = <<"order.issue_date", "items">>
    /\ Out.parsing.status = "partial"

(* C16: the parsing.status the normalizer derives for a legacy output is    *)
(* "failed" exactly when the output has no result body; otherwise it is     *)
(* "partial" when there is a warning or a missing required field, and       *)
(* "success" when there is neither, so that "success" goes with empty       *)
(* warnings and empty missing_fields.                                       *)
C16_StatusDerivation ==
    Returned =>
        LET parsing == Out.parsing
            flagged == parsing.warnings # <<>> \/ parsing.missing_fields # <<>>
        IN  /\ parsing.status \in {"failed", "partial", "success"}
            /\ parsing.status = "failed" <=> arg.legacy_output.empty
            /\ ~arg.legacy_output.empty =>
                   /\ parsing.status = "partial" <=> flagged
                   /\ parsing.status = "success" <=> ~flagged
            /\ parsing.status = "success" =>
                   parsing.warnings = <<>> /\ parsing.missing_fields = <<>>

(* a complete order with one warning and nothing missing came back partial *)
C16_Witness ==
    /\ Returned /\ ~arg.legacy_output.empty
    /\ Out.parsing.warnings = <<"w">>
    /\ Out.parsing.missing_fields = <<>>
    /\ Out.parsing.status = "partial"

(* the call was given a payload that carries schema_version *)
PassedThrough == ret # <<>> /\ arg.legacy_output.schema_version

(* the payload has every section and no key the schema does not know *)
WholeDocument(payload) ==
    /\ payload.sections = RequiredSections \cup {"items", "totals"}
    /\ ~payload.extra

RuleTotal(line) ==
    IF line.total # Null THEN line.total
    ELSE IF line.quantity # Null /\ line.unit_price_excl_vat # Null
    THEN Some(line.quantity[1] * line.unit_price_excl_vat[1])
    ELSE Null

(* the sum of the item totals that are present, absent when none is *)
SumOfPresent(items) ==
    LET present == SelectSeq(items, LAMBDA it : it.total # Null)
    IN  IF present = <<>> THEN Null
        ELSE Some(Sum([i \in 1..Len(present) |-> present[i].total[1]]))

(* C18: in the returned document every item's total is its raw line's own   *)
(* total when the line has one, else quantity x unit price when both are    *)
(* known, else absent; totals.subtotal and totals.total both equal the sum  *)
(* of the item totals that are present and are absent when no item has a    *)
(* total.                                                                   *)
C18_TotalsRule ==
    Returned =>
        /\ Len(Out.items) = Len(arg.legacy_output.lines)
        /\ \A i \in 1..Len(Out.items) :
               Out.items[i].total = RuleTotal(arg.legacy_output.lines[i])
        /\ Out.totals.subtotal = SumOfPresent(Out.items)
        /\ Out.totals.total = SumOfPresent(Out.items)

(* the same rule, for calls without a mapping config *)
TotalsRuleUnmapped == arg.mapping_config = Null => C18_TotalsRule

-----------------------------------------------------------------------------
(* The partner parsers (app/pipeline/parsers.py)                            *)
(*                                                                         *)
(* A document is the sequence of its non-blank lines.  A line is an item    *)
(* line of the LAR layout, a delivery split line with its date, a line      *)
(* that starts with ORDEM DE COMPRA, an item line of the BRF layout with    *)
(* its date, or any other text.                                             *)

MaxDocLines == 4

(* _normalize_lar_date and _normalize_brf_date: D/M/Y to ISO, anything      *)
(* else as it is, None for nothing                                          *)
normalize_partner_date(value) ==
    CASE value = None \/ value = "" -> None
      [] value = "10/02/2024" -> "2024-02-10"
      [] value = "11/02/2024" -> "2024-02-11"
      [] value = "20/01/2024" -> "2024-01-20"
      [] value = "10.02.2024" -> "2024-02-10"
      [] OTHER -> value

(* _extract_lar_items from line idx on *)
RECURSIVE extract_lar_items_from(_, _, _, _)
extract_lar_items_from(lines, idx, items, default_delivery_date) ==
    IF idx > Len(lines) THEN items
    ELSE IF lines[idx].kind # "lar_item"
    THEN extract_lar_items_from(lines, idx + 1, items, default_delivery_date)
    ELSE LET stops == {j \in (idx + 1)..Len(lines) :
                          lines[j].kind \in {"lar_item", "ordem"}}
             scan_idx == IF stops = {} THEN Len(lines) + 1
                         ELSE CHOOSE j \in stops : \A k \in stops : j <= k
             deliveries ==
                 SelectSeq(SubSeq(lines, idx + 1, scan_idx - 1),
                           LAMBDA l : l.kind = "delivery")
             delivery_items ==
                 [k \in 1..Len(deliveries) |->
                     [base |-> idx,
                      delivery_date |->
                          normalize_partner_date(deliveries[k].date)]]
             base == [base |-> idx, delivery_date |-> default_delivery_date]
         IN  extract_lar_items_from(lines, scan_idx,
                 items \o (IF delivery_items # <<>> THEN delivery_items
                           ELSE <<base>>),
                 default_delivery_date)

extract_lar_items(lines, default_delivery_date) ==
    extract_lar_items_from(lines, 1, <<>>, default_delivery_date)

(* _extract_brf_items: one item per BRF item line, with the line's date *)
extract_brf_items(lines) ==
    LET found == SelectSeq(lines, LAMBDA l : l.kind = "brf_item")
    IN  [k \in 1..Len(found) |->
            [base |-> k, delivery_date |-> normalize_partner_date(found[k].date)]]

(* the names app/graph/workflow.py defines or imports *)
WorkflowNames ==
    {"OrderParseState", "node_ingest", "node_deterministic_parsers",
     "node_doc_classifier", "node_llm_extractor", "node_normalize_validate",
     "create_empty_result", "ensure_complete_schema", "build_workflow",
     "order_parser_workflow", "parse_order", "logger", "logging",
     "extract_text_from_pdf", "LLMExtractor", "parser", "normalize_cnpj",
     "normalize_date", "normalize_cep", "config", "StateGraph", "END",
     "TypedDict", "Dict", "Any", "Optional", "List", "Annotated"}

(* from app.graph.workflow import <name> raises ImportError for a name the  *)
(* module does not have                                                     *)
ImportRaises(name) == name \notin WorkflowNames

(* one order per delivery date, in order of first appearance *)
RECURSIVE OrdersByDate(_, _)
OrdersByDate(items, seen) ==
    IF items = <<>> THEN <<>>
    ELSE IF Head(items).delivery_date \in seen
    THEN OrdersByDate(Tail(items), seen)
    ELSE <<Head(items).delivery_date>>
         \o OrdersByDate(Tail(items), seen \cup {Head(items).delivery_date})

(* the try block of lines 61-69: the split of the result by delivery date,  *)
(* nothing when the import or the call raises                               *)
SplitPayload(items) ==
    IF ImportRaises("split_orders_by_delivery_date")
    THEN [split_orders |-> <<>>, has_multiple_dates |-> FALSE]
    ELSE [split_orders |-> OrdersByDate(items, {}),
          has_multiple_dates |-> Len(OrdersByDate(items, {})) > 1]

ModelParseOutput(origin, items, warnings, split, model_name) ==
    [raw |-> [origin |-> origin, lines |-> items,
              split_orders |-> split.split_orders,
              has_multiple_dates |-> split.has_multiple_dates],
     warnings |-> warnings,
     metadata |-> [model_name |-> model_name]]

(* LegacyWorkflowParser.parse: what the generic workflow made of the        *)
(* document; its output has no split_orders and no has_multiple_dates       *)
LegacyWorkflowParse(document) ==
    ModelParseOutput("workflow", document.workflow_lines, <<>>,
                     [split_orders |-> <<>>, has_multiple_dates |-> FALSE],
                     None)

(* LarParser.parse *)
LarParse(document) ==
    LET items == extract_lar_items(document.lines,
                     normalize_partner_date(document.delivery_date_raw))
        warnings == IF items = <<>> THEN <<"No order line items detected">>
                    ELSE <<>>
    IN  IF items = <<>>
        THEN [LegacyWorkflowParse(document) EXCEPT
                 !.metadata.model_name = "lar"]
        ELSE ModelParseOutput("lar", items, warnings, SplitPayload(items),
                              "lar")

(* BrfParser.parse *)
BrfParse(document) ==
    LET items == extract_brf_items(document.lines)
        warnings == IF items = <<>>
                    THEN <<"No order line items detected in BRF document",
                           "No order line items detected in BRF document">>
                    ELSE <<>>
    IN  ModelParseOutput("brf", items, warnings, SplitPayload(items), "brf")

(* CanonicalV1Normalizer.normalize: the canonical items with their          *)
(* delivery dates; split_orders and has_multiple_dates as the parser left   *)
(* them                                                                     *)
CanonicalParseOutput(parsed) ==
    [result |-> [items |-> [k \in 1..Len(parsed.raw.lines) |->
                               [delivery_date |->
                                    normalize_date(
                                        parsed.raw.lines[k].delivery_date)]],
                 model_name |-> parsed.metadata.model_name],
     split_orders |-> parsed.raw.split_orders,
     has_multiple_dates |-> parsed.raw.has_multiple_dates]

DocLines ==
    {[kind |-> "lar_item", date |-> None],
     [kind |-> "delivery", date |-> "10/02/2024"],
     [kind |-> "delivery", date |-> "11/02/2024"],
     [kind |-> "ordem", date |-> None],
     [kind |-> "brf_item", date |-> "10.02.2024"],
     [kind |-> "text", date |-> None]}

WorkflowLines ==
    {<<>>, <<[base |-> 0, delivery_date |-> None]>>}

InitParsers ==
    /\ \E parser \in {"lar", "brf"}, lines \in SeqsUpTo(DocLines, MaxDocLines),
          delivery_date_raw \in {None, "20/01/2024"},
          workflow_lines \in WorkflowLines :
          arg = [parser |-> parser,
                 document |-> [lines |-> lines,
                               delivery_date_raw |-> delivery_date_raw,
                               workflow_lines |-> workflow_lines]]
    /\ models = <<>>
    /\ context = EmptyContext
    /\ ret = <<>>
    /\ Idle
    /\ registries = <<>> /\ file = <<>> /\ db = <<>>

ParserFrame ==
    UNCHANGED <<models, context, input, pc, detection, model, exc, canonical,
                logs, docs, audit, registries, file, db, arg>>

(* runner.py:103 with the LAR parser *)
ParseLar ==
    /\ ret = <<>> /\ arg.parser = "lar"
    /\ ret' = <<[stage |-> "parsed", parsed |-> LarParse(arg.document),
                 canonical |-> Null]>>
    /\ ParserFrame

(* runner.py:103 with the BRF parser *)
ParseBrf ==
    /\ ret = <<>> /\ arg.parser = "brf"
    /\ ret' = <<[stage |-> "parsed", parsed |-> BrfParse(arg.document),
                 canonical |-> Null]>>
    /\ ParserFrame

(* runner.py:113 *)
NormalizeParsed ==
    /\ ret # <<>> /\ ret[1].stage = "parsed"
    /\ ret' = <<[ret[1] EXCEPT
                    !.stage = "normalized",
                    !.canonical = Some(CanonicalParseOutput(ret[1].parsed))]>>
    /\ ParserFrame

NextParsers == ParseLar \/ ParseBrf \/ NormalizeParsed

SpecParsers == InitParsers /\ [][NextParsers]_vars

(* the items the partner parser itself extracts from the document *)
OwnItems ==
    IF arg.parser = "lar"
    THEN extract_lar_items(arg.document.lines,
             normalize_partner_date(arg.document.delivery_date_raw))
    ELSE extract_brf_items(arg.document.lines)

(* C19: a partner parser (LarParser, BrfParser) that extracts zero line     *)
(* items returns the output of the generic workflow parser instead of its   *)
(* own empty result, and the returned metadata names the partner model as   *)
(* model_name.                                                              *)
C19_ZeroItemsFallsBack ==
    (ret # <<>> /\ OwnItems = <<>>) =>
        /\ ret[1].parsed = [LegacyWorkflowParse(arg.document) EXCEPT
                               !.metadata.model_name = arg.parser]
        /\ ret[1].parsed.metadata.model_name = arg.parser

(* the delivery dates the emitted items carry *)
DeliveryDates(items) ==
    {items[k].delivery_date : k \in 1..Len(items)} \ {None}

(* C20: when the LAR parser emits items with more than one distinct         *)
(* delivery date, the result of the run has has_multiple_dates = TRUE, its  *)
(* split_orders holds more than one order, one per delivery date, and       *)
(* every emitted item has a delivery date.                                  *)
C20_MultipleDatesAreFlagged ==
    (/\ ret # <<>> /\ ret[1].stage = "normalized" /\ arg.parser = "lar"
     /\ ret[1].parsed.raw.origin = "lar"
     /\ Cardinality(DeliveryDates(ret[1].parsed.raw.lines)) > 1) =>
        LET out == ret[1].canonical[1]
        IN  /\ out.has_multiple_dates
            /\ Len(out.split_orders) > 1
            /\ Len(out.split_orders) =
                   Cardinality(DeliveryDates(out.result.items))
            /\ \A k \in 1..Len(out.result.items) :
                   out.result.items[k].delivery_date # None

-----------------------------------------------------------------------------
(* The detector on one model whose rules grow (detectors.py:26-103)         *)
(*                                                                         *)
(* The model's rules are extended by signals that match the fixed context,  *)
(* and detect is called after every extension; ret holds the detections in  *)
(* the order they were computed.                                            *)

MaxAdds == 2

(* every category empty, matching or configured without a match *)
GrowingModels ==
    {ModelDefinition("lar", TRUE, "active",
                     Rules(kw, nm, cn, rx, rq, FALSE)) :
        kw \in {<<>>, <<"LAR">>, <<"nf">>},
        nm \in {<<>>, <<"acme">>},
        cn \in {<<>>, <<"123">>, <<"999">>},
        rx \in {<<>>, <<"LAR">>, <<"(">>},
        rq \in {<<>>, <<"cnpj">>, <<"pedido">>}}

FixedContexts ==
    {ParseContext(h, t, <<>>, c) :
        h \in SUBSET {"LAR", "CNPJ"}, t \in SUBSET {"acme"},
        c \in {<<>>, <<"123">>}}

InitGrow ==
    /\ \E m \in GrowingModels : models = <<m>>
    /\ context \in FixedContexts
    /\ ret = <<>>
    /\ arg = [added |-> 0, detected |-> FALSE]
    /\ Idle
    /\ registries = <<>> /\ file = <<>> /\ db = <<>>

GrowFrame ==
    UNCHANGED <<context, input, pc, detection, model, exc, canonical, logs,
                docs, audit, registries, file, db>>

(* detect(context, models) on the rules as they are now *)
DetectGrown ==
    /\ ~arg.detected
    /\ ret' = Append(ret, detect(context, models))
    /\ arg' = [arg EXCEPT !.detected = TRUE]
    /\ UNCHANGED models
    /\ GrowFrame

Grown == [added |-> arg.added + 1, detected |-> FALSE]

(* a keyword the text contains is added to the rules *)
AddKeyword ==
    /\ arg.detected /\ arg.added < MaxAdds
    /\ \E k \in {"LAR", "Lar", "CNPJ", "acme"} :
          /\ Lower(k) \in RawText(context)
          /\ models' = [models EXCEPT ![1].detection.keywords = Append(@, k)]
    /\ arg' = Grown
    /\ UNCHANGED ret
    /\ GrowFrame

(* a CNPJ the deterministic data holds is added to the rules *)
AddCnpj ==
    /\ arg.detected /\ arg.added < MaxAdds
    /\ \E c \in DeterministicCnpjs(context) :
          models' = [models EXCEPT
                        ![1].detection.customer_cnpjs = Append(@, c)]
    /\ arg' = Grown
    /\ UNCHANGED ret
    /\ GrowFrame

(* a header regex that matches the header is added to the rules *)
AddHeaderRegex ==
    /\ arg.detected /\ arg.added < MaxAdds
    /\ \E r \in {"LAR", "CNPJ"} :
          /\ ReSearch(r, HeaderText(context)) = "match"
          /\ models' = [models EXCEPT
                           ![1].detection.header_regex = Append(@, r)]
    /\ arg' = Grown
    /\ UNCHANGED ret
    /\ GrowFrame

NextGrow == DetectGrown \/ AddKeyword \/ AddCnpj \/ AddHeaderRegex

SpecGrow == InitGrow /\ [][NextGrow]_vars

(* C21: for a fixed context, adding to a model's rules a keyword, customer  *)
(* CNPJ or header regex that matches the input never decreases the          *)
(* confidence detect computes for the model, whatever rules it had.         *)
C21_MatchingSignalNeverLowers ==
    \A i \in 1..(Len(ret) - 1) :
        ~Less(ret[i + 1].confidence, ret[i].confidence)

(* a first matching signal went into an empty category beside one that      *)
(* stays unmatched and raised the confidence from 0, a second went into     *)
(* the category that had matched and left it where it was                   *)
C21_Witness ==
    /\ Len(ret) = 3
    /\ ret[1].confidence = Zero
    /\ Less(ret[1].confidence, ret[2].confidence)
    /\ Less(ret[2].confidence, One)
    /\ ret[3].confidence = ret[2].confidence
    /\ Len(ret[3].reasons) > Len(ret[2].reasons)

-----------------------------------------------------------------------------
(* The detector on two models with header regexes (detectors.py:72-83)      *)

(* a model with up to MaxRules header regexes, one that does not compile    *)
(* among them, beside a second model; the header may hold the text "("      *)
RegexModels ==
    {ModelDefinition("lar", TRUE, "active",
                     Rules(kw, <<>>, <<>>, rx, rq, FALSE)) :
        kw \in {<<>>, <<"LAR">>},
        rx \in SeqsUpTo({"LAR", "(", "CNPJ"}, MaxRules),
        rq \in {<<>>, <<"cnpj">>}}

SecondModels ==
    {ModelDefinition("brf", TRUE, "active",
                     Rules(kw, <<>>, <<>>, rx, <<>>, fb)) :
        kw \in {<<>>, <<"LAR">>},
        rx \in {<<>>, <<"CNPJ">>, <<"(">>},
        fb \in BOOLEAN}

InitRegex ==
    /\ \E m \in RegexModels, o \in SecondModels :
          models \in {<<m, o>>, <<o, m>>}
    /\ \E h \in SUBSET {"LAR", "CNPJ", "("} :
          context = ParseContext(h, {}, <<>>, <<>>)
    /\ ret = <<>>
    /\ Idle
    /\ Unused

SpecRegex == InitRegex /\ [][NextScore]_vars

(* a pattern that compiles and occurs in no text of the model *)
NeverMatching == "zzz"

(* the models with every malformed header regex replaced by a pattern that  *)
(* matches nothing                                                          *)
WithoutMalformed(ms) ==
    [i \in 1..Len(ms) |->
        [ms[i] EXCEPT !.detection.header_regex =
            [k \in 1..Len(@) |->
                IF @[k] \in MalformedRegex THEN NeverMatching ELSE @[k]]]]

(* C22: a malformed header regex is skipped without raising.  detect        *)
(* returns a detection, and it is the detection it returns when every       *)
(* malformed regex is replaced by one that matches nothing: the model's     *)
(* other regexes and categories and the other models count as they do       *)
(* then.                                                                    *)
C22_MalformedRegexIsSkipped ==
    ret # <<>> =>
        /\ ret[1] = detect(context, WithoutMalformed(models))
        /\ ret[1].model_id \in {models[i].model_id : i \in 1..Len(models)}

(* the first model's first regex does not compile, its second matched and   *)
(* is in the reasons; the second model, with a malformed regex of its own,  *)
(* matched by keyword and lost                                              *)
C22_Witness ==
    /\ ret # <<>>
    /\ models[1].detection.header_regex = <<"(", "LAR">>
    /\ "(" \in context.head
    /\ ret[1].model_id = models[1].model_id
    /\ ret[1].reasons = << <<"header_regex", "LAR">> >>
    /\ models[2].detection.header_regex = <<"(">>
    /\ models[2].detection.keywords = <<"LAR">>

-----------------------------------------------------------------------------
(* The reasons and the evidence of a positive detection                     *)

(* the configured values of a category that the input matches, in the       *)
(* order they are configured, as the detection names them                   *)
MatchedValues(type, m, ctx) ==
    LET r == m.detection
        text == {Lower(w) : w \in ctx.head \cup ctx.tail}
        header == {Lower(w) : w \in ctx.head}
        found == Range(ctx.customer_cnpjs) \cup Range(ctx.cnpjs)
        InText(v) == v # "" /\ Lower(v) \in text
    IN  CASE type = "keyword" -> MapLower(SelectSeq(r.keywords, InText))
          [] type = "name" -> MapLower(SelectSeq(r.customer_names, InText))
          [] type = "cnpj" ->
                 SelectSeq(r.customer_cnpjs,
                           LAMBDA v : v # "" /\ v \in found)
          [] type = "header_regex" ->
                 SelectSeq(r.header_regex,
                           LAMBDA v : /\ v # "" /\ v \notin MalformedRegex
                                      /\ Lower(v) \in header)
          [] type = "required_field" ->
                 MapLower(SelectSeq(r.required_fields, InText))

CategoryOrder ==
    <<"keyword", "name", "cnpj", "header_regex", "required_field">>

(* the entries of one category among the evidence, in order *)
OfType(evidence, type) ==
    LET kept == SelectSeq(evidence, LAMBDA e : e.type = type)
    IN  [i \in 1..Len(kept) |-> kept[i].value]

Rank(type) == CHOOSE k \in 1..Len(CategoryOrder) : CategoryOrder[k] = type

(* C23: the reasons and the evidence of a positive detection hold exactly   *)
(* one entry per matched signal value (keyword, name, cnpj, header_regex,   *)
(* required_field, in that order of categories and in the order the values  *)
(* are configured), reasons[i] describing evidence[i]; a model matched by   *)
(* a configured CNPJ has the reason cnpj:<that cnpj>.                       *)
C23_OneEntryPerMatch ==
    (ret # <<>> /\ ret[1].confidence # Zero) =>
        LET m == models[1]
            reasons == ret[1].reasons
            evidence == ret[1].evidence
        IN  /\ Len(reasons) = Len(evidence)
            /\ \A i \in 1..Len(evidence) :
                   /\ reasons[i] = <<evidence[i].type, evidence[i].value>>
                   /\ evidence[i].type \in Range(CategoryOrder)
            /\ \A i, j \in 1..Len(evidence) :
                   i < j => Rank(evidence[i].type) <= Rank(evidence[j].type)
            /\ \A k \in 1..Len(CategoryOrder) :
                   OfType(evidence, CategoryOrder[k]) =
                       MatchedValues(CategoryOrder[k], m, context)
            /\ MatchedValues("cnpj", m, context) = <<"123">> =>
                   \E i \in 1..Len(reasons) : reasons[i] = <<"cnpj", "123">>

(* one header regex and both required tokens matched, and the configured    *)
(* CNPJ was among the extracted ones                                        *)
C23_Witness ==
    /\ ret # <<>>
    /\ ret[1].reasons =
           << <<"cnpj", "123">>, <<"header_regex", "LAR">>,
              <<"required_field", "cnpj">>, <<"required_field", "pedido">> >>
    /\ models[1].detection.header_regex = <<"(", "LAR">>

-----------------------------------------------------------------------------
(* Date normalization (app/parsers/deterministic.py, normalizers.py)        *)
(*                                                                         *)
(* A date string is modelled by its shape and the numbers written in it:    *)
(* "dmy" is 5/2/2024 or 05-02-2024, "iso" is 2024-02-05 (four digits, two,  *)
(* two, dashes), "ymd" is 2024/2/5 or 2024.02.05, "written" is              *)
(* "5 de fevereiro de 2024".  An ISO value is the triple it denotes.        *)

MaxDates == 2

DateString(shape, year, month, day) ==
    [shape |-> shape, year |-> year, month |-> month, day |-> day]

IsLeap(year) ==
    (year % 4 = 0 /\ year % 100 # 0) \/ year % 400 = 0

DaysIn(year, month) ==
    IF month = 2 THEN (IF IsLeap(year) THEN 29 ELSE 28)
    ELSE IF month \in {4, 6, 9, 11} THEN 30 ELSE 31

(* datetime.strptime(iso, "%Y-%m-%d") does not raise ValueError *)
Strptime(year, month, day) ==
    /\ month \in 1..12
    /\ day \in 1..DaysIn(year, month)

Iso(year, month, day) == <<[year |-> year, month |-> month, day |-> day]>>

(* parsers/normalizers.py normalize_date: an ISO-shaped string is returned  *)
(* as it is (line 26-27); D/M/Y and Y/M/D are rebuilt and validated; any    *)
(* other string gives None                                                  *)
NormalizeDateString(date_str) ==
    IF date_str.shape = "iso"
    THEN Iso(date_str.year, date_str.month, date_str.day)
    ELSE IF date_str.shape \in {"dmy", "ymd"}
            /\ Strptime(date_str.year, date_str.month, date_str.day)
    THEN Iso(date_str.year, date_str.month, date_str.day)
    ELSE Null

(* the matches of one of DATE_PATTERNS in the text, validated *)
PatternDates(text, shape) ==
    LET found == SelectSeq(text, LAMBDA t :
                     /\ t.shape = shape
                     /\ Strptime(t.year, t.month, t.day))
    IN  [i \in 1..Len(found) |->
            [original |-> found[i],
             iso |-> Iso(found[i].year, found[i].month, found[i].day)]]

(* the "Remove duplicates" loop: the first result of every iso value *)
RECURSIVE Unique(_, _)
Unique(results, seen) ==
    IF results = <<>> THEN <<>>
    ELSE IF Head(results).iso \in seen THEN Unique(Tail(results), seen)
    ELSE <<Head(results)>>
         \o Unique(Tail(results), seen \cup {Head(results).iso})

(* DeterministicParser.extract_dates: the dmy pattern, then the iso         *)
(* pattern, then the written one; "ymd" strings match none of them          *)
extract_dates(text) ==
    Unique(PatternDates(text, "dmy") \o PatternDates(text, "iso")
           \o PatternDates(text, "written"), {})

(* a valid day, the last day of February in a leap year, day 32; February   *)
(* and month 13 (which has no name)                                         *)
DateStrings ==
    {DateString(shape, year, month, day) :
        shape \in {"dmy", "iso", "ymd", "written"},
        year \in {2023, 2024}, month \in {2, 13}, day \in {5, 29, 32}}
    \ {DateString("written", year, 13, day) :
        year \in {2023, 2024}, day \in {5, 29, 32}}

InitDates ==
    /\ \E text \in SeqsUpTo(DateStrings, MaxDates) : arg = text
    /\ models = <<>>
    /\ context = EmptyContext
    /\ ret = <<>>
    /\ Idle
    /\ registries = <<>> /\ file = <<>> /\ db = <<>>

DatesFrame ==
    UNCHANGED <<models, context, input, pc, detection, model, exc, canonical,
                logs, docs, audit, registries, file, db, arg>>

(* extract_dates on the text *)
ExtractDates ==
    /\ ret = <<>>
    /\ ret' = <<[call |-> "extract_dates", of |-> arg,
                 dates |-> extract_dates(arg), iso |-> Null]>>
    /\ DatesFrame

(* normalize_date on one of the date strings of the text *)
NormalizeDate ==
    /\ ret = <<>>
    /\ \E i \in 1..Len(arg) :
          ret' = <<[call |-> "normalize_date", of |-> <<arg[i]>>,
                    dates |-> <<>>, iso |-> NormalizeDateString(arg[i])]>>
    /\ DatesFrame

NextDates == ExtractDates \/ NormalizeDate

SpecDates == InitDates /\ [][NextDates]_vars

(* the calendar date a date string denotes, nothing when there is none *)
Denoted(t) ==
    IF Strptime(t.year, t.month, t.day) THEN Iso(t.year, t.month, t.day)
    ELSE Null

(* C24: date strings written as D/M/Y, Y-M-D or with a Portuguese month     *)
(* name that denote the same calendar date get the same ISO value, the one  *)
(* of that date; extract_dates returns every ISO value at most once; a      *)
(* string that denotes no calendar date (day 32, month 13, 29 February of   *)
(* a common year), the ISO shape included, is left out by extract_dates     *)
(* and normalized to None by normalize_date.                                *)
C24_DatesNormalize ==
    ret # <<>> =>
        IF ret[1].call = "normalize_date"
        THEN LET t == ret[1].of[1]
             IN  t.shape \in {"dmy", "iso", "ymd"} => ret[1].iso = Denoted(t)
        ELSE LET dates == ret[1].dates
             IN  /\ \A i, j \in 1..Len(dates) :
                        i # j => dates[i].iso # dates[j].iso
                 /\ \A i \in 1..Len(dates) :
                        dates[i].iso = Denoted(dates[i].original)
                 /\ \A k \in 1..Len(arg) :
                        arg[k].shape \in {"dmy", "iso", "written"} =>
                            (Denoted(arg[k]) # Null <=>
                                \E i \in 1..Len(dates) :
                                    dates[i].iso = Denoted(arg[k]))

(* the same statement for extract_dates alone *)
ExtractedDatesNormalize ==
    (ret # <<>> /\ ret[1].call = "extract_dates") => C24_DatesNormalize

(* the same statement for normalize_date on strings that are not ISO-shaped *)
NonIsoDatesNormalize ==
    (ret # <<>> /\ ret[1].call = "normalize_date"
     /\ ret[1].of[1].shape # "iso") => C24_DatesNormalize

-----------------------------------------------------------------------------
(* The parsed-document store (app/repositories/parsed_documents.py)         *)
(*                                                                         *)
(* Here the table is the list of its rows, so that a second row of one      *)
(* document id is a state the model can tell apart.                         *)

MaxUpserts == 3

(* json.dumps(value or default) followed by json.loads on the way back *)
JsonDumps(value, default) ==
    IF value = Null THEN <<"json", default>> ELSE <<"json", value[1]>>

JsonLoads(text) == text[2]

ParsedRow(call, created_at, updated_at) ==
    [document_id |-> call.document_id,
     status |-> call.status,
     warnings_json |-> JsonDumps(call.warnings, <<>>),
     canonical_json |-> JsonDumps(Some(call.canonical), [status |-> Null]),
     created_at |-> created_at,
     updated_at |-> updated_at]

upsert_insert_only(rows, call, now) ==
    Append(rows, ParsedRow(call, now, now))

(* INSERT ... ON CONFLICT(document_id) DO UPDATE SET every column but       *)
(* document_id and created_at                                               *)
upsert(rows, call, now) ==
    IF \E i \in 1..Len(rows) : rows[i].document_id = call.document_id
    THEN [i \in 1..Len(rows) |->
             IF rows[i].document_id = call.document_id
             THEN ParsedRow(call, rows[i].created_at, now)
             ELSE rows[i]]
    ELSE Append(rows, ParsedRow(call, now, now))

(* SELECT * ... WHERE document_id = ? and fetchone: None without a row *)
get_document(rows, document_id) ==
    LET found == SelectSeq(rows, LAMBDA row : row.document_id = document_id)
    IN  IF found = <<>> THEN Null
        ELSE Some([document_id |-> found[1].document_id,
                   status |-> found[1].status,
                   warnings |-> JsonLoads(found[1].warnings_json),
                   canonical |-> JsonLoads(found[1].canonical_json),
                   created_at |-> found[1].created_at,
                   updated_at |-> found[1].updated_at])

DocumentIds == {"doc-1", "doc-2"}

UpsertCalls ==
    {[document_id |-> id, status |-> Some(st), warnings |-> w,
      canonical |-> [status |-> Some(st)]] :
        id \in DocumentIds, st \in {"success", "failed"},
        w \in {Null, Some(<<"w">>)}}

(* docs is the table, arg the calls made so far, ret the last get *)
InitStore ==
    /\ docs = <<>>
    /\ arg = <<>>
    /\ ret = <<>>
    /\ models = <<>>
    /\ context = EmptyContext
    /\ input = NoRun /\ pc = NoRun /\ detection = NoRun /\ model = NoRun
    /\ exc = NoRun /\ canonical = NoRun
    /\ logs = <<>> /\ audit = <<>>
    /\ registries = <<>> /\ file = <<>> /\ db = <<>>

StoreFrame ==
    UNCHANGED <<models, context, input, pc, detection, model, exc, canonical,
                logs, audit, registries, file, db>>

(* repository.upsert(...); _utc_now() is the number of the call *)
UpsertDocument ==
    /\ Len(arg) < MaxUpserts
    /\ \E call \in UpsertCalls :
          /\ docs' = upsert(docs, call, Len(arg) + 1)
          /\ arg' = Append(arg, call)
    /\ UNCHANGED ret
    /\ StoreFrame

(* repository.get(document_id) *)
GetDocument ==
    /\ \E id \in DocumentIds :
          ret' = <<[document_id |-> id, document |-> get_document(docs, id)]>>
    /\ UNCHANGED <<docs, arg>>
    /\ StoreFrame

NextStore == UpsertDocument \/ GetDocument

SpecStore == InitStore /\ [][NextStore]_vars

(* the numbers of the calls made for a document id *)
CallsFor(id) == {k \in 1..Len(arg) : arg[k].document_id = id}

(* C25: after any sequence of upserts the table has at most one row per     *)
(* document id, get of an id returns the canonical payload (and status and  *)
(* warnings) of the latest upsert for that id and nothing for an id never   *)
(* upserted, and an upsert leaves what get returns for the other ids as it  *)
(* was, including their updated_at.                                         *)
C25_OneRecordLatestPayload ==
    \A id \in DocumentIds :
        /\ Cardinality({i \in 1..Len(docs) : docs[i].document_id = id}) <= 1
        /\ IF CallsFor(id) = {} THEN get_document(docs, id) = Null
           ELSE LET last == CHOOSE k \in CallsFor(id) :
                                \A j \in CallsFor(id) : k >= j
                    first == CHOOSE k \in CallsFor(id) :
                                 \A j \in CallsFor(id) : k <= j
                    document == get_document(docs, id)[1]
                IN  /\ get_document(docs, id) # Null
                    /\ document.canonical = arg[last].canonical
                    /\ document.status = arg[last].status
                    /\ document.warnings =
                           (IF arg[last].warnings = Null THEN <<>>
                            ELSE arg[last].warnings[1])
                    /\ document.created_at = first
                    /\ document.updated_at = last

(* doc-1 written, doc-2 written, doc-1 written again with another payload,  *)
(* then read                                                                *)
C25_Witness ==
    /\ Len(arg) = 3
    /\ arg[1].document_id = "doc-1" /\ arg[2].document_id = "doc-2"
    /\ arg[3].document_id = "doc-1"
    /\ arg[1].canonical # arg[3].canonical
    /\ ret # <<>> /\ ret[1].document_id = "doc-1"
    /\ ret[1].document = get_document(docs, "doc-1")
    /\ ret[1].document[1].canonical = arg[3].canonical
    /\ get_document(docs, "doc-2")[1].updated_at = 2

-----------------------------------------------------------------------------
(* Two invocations of PipelineRunner.run at once                            *)
(*                                                                         *)
(* Everything run works on is local to the call; the calls meet in the      *)
(* processing_logs and parsed_documents tables and in the audit logger.     *)
(* Each store call is one step, and the steps of the two calls interleave   *)
(* in every order.                                                          *)

Runs == {1, 2}

(* two registered models, in either order; a disabled one among them at     *)
(* most                                                                     *)
ConcurrentAttrs ==
    {<<<<TRUE, "active">>, Rules(<<>>, <<>>, <<>>, <<>>, <<>>, TRUE)>>,
     <<<<TRUE, "active">>,
       Rules(<<"LAR">>, <<>>, <<>>, <<>>, <<"pedido", "nota">>, FALSE)>>,
     <<<<FALSE, "active">>, Rules(<<>>, <<>>, <<>>, <<>>, <<>>, FALSE)>>}

(* the document ids of the two calls differ: each is given its own or       *)
(* draws a uuid                                                             *)
ConcurrentInputs(r) ==
    {ParseInput(ctx, None, id) :
        ctx \in RunContexts,
        id \in {None, IF r = 1 THEN "d1" ELSE "d2"}}

InitTwoRuns ==
    /\ \E ids \in IdOrders(2) : \E attrs \in [1..2 -> ConcurrentAttrs] :
          models = ModelList(ids, attrs)
    /\ context = EmptyContext
    /\ ret = <<>>
    /\ \E i1 \in ConcurrentInputs(1), i2 \in ConcurrentInputs(2) :
          input = [r \in Runs |-> IF r = 1 THEN i1 ELSE i2]
    /\ pc = [r \in Runs |-> "start"]
    /\ detection = [r \in Runs |-> Null]
    /\ model = [r \in Runs |-> Null]
    /\ exc = [r \in Runs |-> NoException]
    /\ canonical = [r \in Runs |-> Null]
    /\ logs = <<>> /\ docs = <<>> /\ audit = <<>>
    /\ Unused

SpecTwoRuns == InitTwoRuns /\ [][Next]_vars

(* the call failed inside its parser or normalizer and has raised *)
Failed(r) == pc[r] = "raised" /\ exc[r] \in Raisable

(* the records of a call that is over are its own *)
OwnRecords(r) ==
    /\ pc[r] = "returned" =>
          LET result == canonical[r][1].result IN
          /\ LogId(r) \in DOMAIN logs /\ DocumentId(r) \in DOMAIN docs
          /\ logs[LogId(r)].document_id = Some(DocumentId(r))
          /\ logs[LogId(r)].status =
                 (IF result.parsing.status # Null THEN result.parsing.status
                  ELSE Some("partial"))
          /\ logs[LogId(r)].errors_count = Some(0)
          /\ logs[LogId(r)].model_name = Some(canonical[r][1].model_id)
          /\ docs[DocumentId(r)].canonical = result
          /\ docs[DocumentId(r)].status = result.parsing.status
    /\ Failed(r) =>
          /\ LogId(r) \in DOMAIN logs /\ DocumentId(r) \in DOMAIN docs
          /\ logs[LogId(r)].document_id = Some(DocumentId(r))
          /\ logs[LogId(r)].status = Some("failed")
          /\ logs[LogId(r)].error_summary = Some(exc[r])
          /\ docs[DocumentId(r)].status = Some("failed")

(* a step of call r leaves every log and document record but its own, and   *)
(* every local of the other call, as they were                              *)
StepIsLocal(r) ==
    pc'[r] # pc[r] =>
        /\ \A id \in DOMAIN logs :
              id # LogId(r) => id \in DOMAIN logs' /\ logs'[id] = logs[id]
        /\ DOMAIN logs' \subseteq DOMAIN logs \cup {LogId(r)}
        /\ \A id \in DOMAIN docs :
              id # DocumentId(r) =>
                  id \in DOMAIN docs' /\ docs'[id] = docs[id]
        /\ DOMAIN docs' \subseteq DOMAIN docs \cup {DocumentId(r)}
        /\ \A o \in Runs \ {r} :
              /\ pc'[o] = pc[o] /\ canonical'[o] = canonical[o]
              /\ exc'[o] = exc[o] /\ detection'[o] = detection[o]
              /\ model'[o] = model[o]

(* C26: two runs with different document ids interleave in every order:     *)
(* every step of a run, the steps of a run that fails in its parser or      *)
(* normalizer included, writes only the log and document records of that    *)
(* run, and once a run has returned or raised its log and its document      *)
(* record carry that run's own status and payload whatever the other run    *)
(* does or did.                                                             *)
C26_RunsAreIsolated ==
    [][(\A r \in Runs : StepIsLocal(r)) /\ (\A r \in Runs : OwnRecords(r))']_vars

(* the same as a property of the states *)
OwnRecordsAlways == \A r \in Runs : OwnRecords(r)

(* both runs are over: run 1 failed in its parser or normalizer, run 2      *)
(* returned a success, and each left its own records                        *)
C26_Witness ==
    /\ Failed(1) /\ pc[2] = "returned"
    /\ DocumentId(1) # DocumentId(2)
    /\ logs[LogId(1)].status = Some("failed")
    /\ logs[LogId(2)].status = Some("success")
    /\ docs[DocumentId(1)].status = Some("failed")
    /\ docs[DocumentId(2)].canonical = canonical[2][1].result
    /\ docs[DocumentId(2)].status = Some("success")
    /\ Len(audit) = 1

-----------------------------------------------------------------------------
(* The LAR line scan, step by step (app/pipeline/parsers.py, 336-439)       *)
(*                                                                         *)
(* A line is what the two line parsers read in it.  An item line has 12 or  *)
(* more tokens, a number first and a unit in the tenth place from the end;  *)
(* a delivery line matches the QUANTIDADE DE ... ENTREGA EM pattern.  A     *)
(* number is held in hundredths.                                            *)

MaxScanLines == 4

NoTotal == [kind |-> "None", text |-> "", number |-> 0]
TextTotal(token) == [kind |-> "str", text |-> token, number |-> 0]
FloatTotal(hundredths) == [kind |-> "float", text |-> "", number |-> hundredths]

ScanLine(kind, code, description, quantity, unit, unit_price, total, date) ==
    [kind |-> kind, code |-> code, description |-> description,
     quantity |-> quantity, unit |-> unit, unit_price |-> unit_price,
     total |-> total, date |-> date]

ItemLine(code, description, quantity, unit, unit_price, total) ==
    ScanLine("item", code, description, quantity, unit, unit_price, total, None)

DeliveryLine(quantity, unit, date) ==
    ScanLine("delivery", "", "", quantity, unit, "", "", date)

OrdemLine == ScanLine("ordem", "", "", "", "", "", "", None)

TextLine == ScanLine("text", "", "", "", "", "", "", None)

BlankLine == ScanLine("blank", "", "", "", "", "", "", None)

(* _parse_decimal: the number a token reads as, nothing when float() raises *)
parse_decimal(value) ==
    CASE value = "10" -> Some(1000)
      [] value = "4" -> Some(400)
      [] value = "6,5" -> Some(650)
      [] value = "2,5" -> Some(250)
      [] value = "1.000,00" -> Some(100000)
      [] OTHER -> Null

(* round(qty_value * price_value, 6) *)
Times(qty_value, price_value) == (qty_value * price_value) \div 100

(* _apply_total_if_missing *)
apply_total_if_missing(item) ==
    IF item.total.kind # "None" /\ item.total # TextTotal("") THEN item
    ELSE IF parse_decimal(item.quantity) = Null
            \/ parse_decimal(item.unit_price_excl_vat) = Null
    THEN item
    ELSE [item EXCEPT !.total =
             FloatTotal(Times(parse_decimal(item.quantity)[1],
                              parse_decimal(item.unit_price_excl_vat)[1]))]

(* _parse_lar_item_line: the dict of an item line, nothing for other lines *)
parse_lar_item_line(line) ==
    IF line.kind # "item" THEN Null
    ELSE Some([item_reference_no |-> line.code,
               description |-> line.description,
               quantity |-> line.quantity,
               unit_of_measure |-> line.unit,
               unit_price_excl_vat |-> line.unit_price,
               total |-> TextTotal(line.total),
               delivery_date |-> None,
               customer_order_item_no |-> None])

(* _parse_lar_delivery_line: (qty, unit, date), nothing for other lines *)
parse_lar_delivery_line(line) ==
    IF line.kind # "delivery" THEN Null
    ELSE Some([qty |-> line.quantity, unit |-> line.unit,
               date |-> normalize_partner_date(line.date)])

DeliveryItemKeepingTotal(base, delivery) ==
    [base EXCEPT !.quantity = delivery.qty,
                 !.delivery_date = delivery.date]

(* lines 358-365: the copy of base made for one delivery line *)
DeliveryItem(base, delivery) ==
    apply_total_if_missing(
        [base EXCEPT !.quantity = delivery.qty,
                     !.unit_of_measure =
                         IF delivery.unit # "" THEN delivery.unit ELSE @,
                     !.delivery_date = delivery.date,
                     !.total = NoTotal])

(* str(n) *)
Str(n) ==
    CASE n = 1 -> "1" [] n = 2 -> "2" [] n = 3 -> "3" [] n = 4 -> "4"
      [] n = 5 -> "5" [] n = 6 -> "6" [] OTHER -> "7"

(* lines 370-374: the delivery items go out numbered *)
RECURSIVE AppendNumbered(_, _)
AppendNumbered(items, delivery_items) ==
    IF delivery_items = <<>> THEN items
    ELSE AppendNumbered(
             Append(items,
                    [apply_total_if_missing(Head(delivery_items)) EXCEPT
                        !.customer_order_item_no = Str(Len(items) + 1)]),
             Tail(delivery_items))

(* lines 375-380: base goes out once *)
AppendBase(items, base, default_delivery_date) ==
    LET dated == IF default_delivery_date # None
                    /\ base.delivery_date = None
                 THEN [base EXCEPT !.delivery_date = default_delivery_date]
                 ELSE base
    IN  Append(items,
               [apply_total_if_missing(dated) EXCEPT
                   !.customer_order_item_no = Str(Len(items) + 1)])

(* two item lines, one with a unit price that is no number; delivery lines  *)
(* with and without a unit                                                  *)
ScanLines ==
    {ItemLine("1", "FARELO", "10", "KG", "2,5", "25,00"),
     ItemLine("2", "MILHO", "1.000,00", "TON", "s/p", "0"),
     DeliveryLine("4", "KG", "10/02/2024"),
     DeliveryLine("6,5", "", "11/02/2024"),
     OrdemLine, TextLine, BlankLine}

(* arg holds the locals of _extract_lar_items; idx and scan_idx count from 1 *)
InitScan ==
    /\ \E lines \in SeqsUpTo(ScanLines, MaxScanLines),
          default_delivery_date \in {None, "2024-01-20"} :
          arg = [lines |-> lines,
                 default_delivery_date |-> default_delivery_date,
                 at |-> "while", idx |-> 1, scan_idx |-> 1,
                 base |-> Null, delivery_items |-> <<>>, items |-> <<>>]
    /\ ret = <<>>
    /\ models = <<>>
    /\ context = EmptyContext
    /\ Idle
    /\ registries = <<>> /\ file = <<>> /\ db = <<>>

ScanFrame ==
    UNCHANGED <<models, context, input, pc, detection, model, exc, canonical,
                logs, docs, audit, registries, file, db>>

(* lines 339-349: one turn of the outer loop up to the inner loop, or return *)
OuterStep ==
    /\ arg.at = "while"
    /\ IF arg.idx > Len(arg.lines)
       THEN /\ arg' = [arg EXCEPT !.at = "returned"]
            /\ ret' = <<arg.items>>
       ELSE LET base == parse_lar_item_line(arg.lines[arg.idx])
            IN  /\ UNCHANGED ret
                /\ IF base = Null
                   THEN arg' = [arg EXCEPT !.idx = @ + 1]
                   ELSE arg' = [arg EXCEPT !.base = base,
                                           !.delivery_items = <<>>,
                                           !.scan_idx = arg.idx + 1,
                                           !.at = "scan"]
    /\ ScanFrame

(* lines 349-368: one turn of the inner loop *)
InnerStep ==
    /\ arg.at = "scan"
    /\ IF arg.scan_idx > Len(arg.lines)
       THEN arg' = [arg EXCEPT !.at = "emit"]
       ELSE LET next_line == arg.lines[arg.scan_idx]
                delivery == parse_lar_delivery_line(next_line)
            IN  IF next_line.kind = "blank"
                THEN arg' = [arg EXCEPT !.scan_idx = @ + 1]
                ELSE IF parse_lar_item_line(next_line) # Null
                        \/ next_line.kind = "ordem"
                THEN arg' = [arg EXCEPT !.at = "emit"]
                ELSE IF delivery # Null
                THEN arg' = [arg EXCEPT
                                !.delivery_items =
                                    Append(@, DeliveryItem(arg.base[1],
                                                           delivery[1])),
                                !.scan_idx = @ + 1]
                ELSE arg' = [arg EXCEPT !.scan_idx = @ + 1]
    /\ UNCHANGED ret
    /\ ScanFrame

(* lines 370-382: the items of this item line go out, idx = scan_idx *)
EmitStep ==
    /\ arg.at = "emit"
    /\ arg' = [arg EXCEPT
                  !.items =
                      IF arg.delivery_items # <<>>
                      THEN AppendNumbered(@, arg.delivery_items)
                      ELSE AppendBase(@, arg.base[1],
                                      arg.default_delivery_date),
                  !.idx = arg.scan_idx,
                  !.at = "while"]
    /\ UNCHANGED ret
    /\ ScanFrame

NextScan == OuterStep \/ InnerStep \/ EmitStep

SpecScan == InitScan /\ [][NextScan]_vars

(* the scan is one sequential call: it takes its next step *)
SpecScanFair == SpecScan /\ WF_vars(NextScan)

(* the item lines, and the delivery lines that follow item line i before    *)
(* the next item line or ORDEM DE COMPRA line                               *)
Headers(lines) == {i \in 1..Len(lines) : lines[i].kind = "item"}

SplitsOf(lines, i) ==
    {j \in (i + 1)..Len(lines) :
        /\ lines[j].kind = "delivery"
        /\ \A k \in (i + 1)..j : lines[k].kind \notin {"item", "ordem"}}

(* what the claim says of an item: code, description, unit price, quantity, *)
(* delivery date and total                                                  *)
Described(code, description, unit_price, quantity, delivery_date, total) ==
    [item_reference_no |-> code, description |-> description,
     unit_price_excl_vat |-> unit_price, quantity |-> quantity,
     delivery_date |-> delivery_date, total |-> total]

DescriptionOf(item) ==
    Described(item.item_reference_no, item.description,
              item.unit_price_excl_vat, item.quantity, item.delivery_date,
              item.total)

(* quantity times unit price; no total when one of them is no number *)
Product(quantity, unit_price) ==
    IF parse_decimal(quantity) = Null \/ parse_decimal(unit_price) = Null
    THEN NoTotal
    ELSE FloatTotal((parse_decimal(quantity)[1] * parse_decimal(unit_price)[1])
                    \div 100)

IsoOf(date) ==
    CASE date = "10/02/2024" -> "2024-02-10"
      [] date = "11/02/2024" -> "2024-02-11"
      [] OTHER -> date

(* the items the claim gives item line i, in the order of the lines *)
RECURSIVE SplitItems(_, _, _)
SplitItems(lines, i, splits) ==
    IF splits = {} THEN <<>>
    ELSE LET j == CHOOSE m \in splits : \A n \in splits : m <= n
         IN  <<Described(lines[i].code, lines[i].description,
                         lines[i].unit_price, lines[j].quantity,
                         IsoOf(lines[j].date),
                         Product(lines[j].quantity, lines[i].unit_price))>>
             \o SplitItems(lines, i, splits \ {j})

ItemsOfHeader(lines, i, default_delivery_date) ==
    IF SplitsOf(lines, i) = {}
    THEN <<Described(lines[i].code, lines[i].description, lines[i].unit_price,
                     lines[i].quantity, default_delivery_date,
                     TextTotal(lines[i].total))>>
    ELSE SplitItems(lines, i, SplitsOf(lines, i))

RECURSIVE ItemsOfHeaders(_, _, _)
ItemsOfHeaders(lines, headers, default_delivery_date) ==
    IF headers = {} THEN <<>>
    ELSE LET i == CHOOSE m \in headers : \A n \in headers : m <= n
         IN  ItemsOfHeader(lines, i, default_delivery_date)
             \o ItemsOfHeaders(lines, headers \ {i}, default_delivery_date)

(* the returned items are the described ones, numbered 1..n *)
ScanIsAsDescribed ==
    arg.at = "returned" =>
        LET expected == ItemsOfHeaders(arg.lines, Headers(arg.lines),
                                       arg.default_delivery_date)
        IN  /\ Len(ret[1]) = Len(expected)
            /\ \A k \in 1..Len(expected) :
                  /\ DescriptionOf(ret[1][k]) = expected[k]
                  /\ ret[1][k].customer_order_item_no = Str(k)

(* C27: the LAR line scan ends on every input, and what it returns is, for  *)
(* every item line in order, one item per delivery line that follows it     *)
(* before the next item line or ORDEM DE COMPRA line, with the item line's  *)
(* code, description and unit price and the delivery line's quantity and    *)
(* date and total = quantity x unit price (no total when one of the two is   *)
(* no number), or, without such a delivery line, one item with the item      *)
(* line's own quantity and total and the order's default delivery date; a   *)
(* delivery line that follows no item line gives no item; the items are     *)
(* numbered 1..n in output order.                                           *)
C27_ScanEmitsSplits ==
    /\ []ScanIsAsDescribed
    /\ <>(arg.at = "returned")

(* a delivery line before any item line, then an item line with two         *)
(* delivery lines: two items of that item line, numbered 1 and 2, totals    *)
(* 4 x 2.5 and 6.5 x 2.5                                                    *)
C27_Witness ==
    /\ arg.at = "returned"
    /\ Len(arg.lines) = 4
    /\ arg.lines[1].kind = "delivery" /\ arg.lines[2].kind = "item"
    /\ arg.lines[3].kind = "delivery" /\ arg.lines[4].kind = "delivery"
    /\ Len(ret[1]) = 2
    /\ ret[1][1].item_reference_no = "1" /\ ret[1][2].item_reference_no = "1"
    /\ ret[1][1].quantity = "4" /\ ret[1][2].quantity = "6,5"
    /\ ret[1][1].total = FloatTotal(1000) /\ ret[1][2].total = FloatTotal(1625)
    /\ ret[1][1].delivery_date = "2024-02-10"
    /\ ret[1][2].delivery_date = "2024-02-11"
    /\ ret[1][1].customer_order_item_no = "1"
    /\ ret[1][2].customer_order_item_no = "2"

(* an item line without delivery lines, cut off by an ORDEM DE COMPRA line  *)
ScanWithoutSplits ==
    /\ arg.at = "returned"
    /\ Len(arg.lines) = 3
    /\ arg.lines[1].kind = "item" /\ arg.lines[2].kind = "ordem"
    /\ arg.lines[3].kind = "delivery"
    /\ arg.default_delivery_date = "2024-01-20"
    /\ Len(ret[1]) = 1
    /\ ret[1][1].total = TextTotal("25,00")
    /\ ret[1][1].delivery_date = "2024-01-20"

-----------------------------------------------------------------------------
(* The life of a processing-log record *)

(* the record as create_log leaves it *)
InitialRecord(record) ==
    /\ record.status = Some("partial")
    /\ record.finished_at = Null /\ record.duration_ms = Null
    /\ record.errors_count = Null /\ record.warnings_count = Null
    /\ record.error_summary = Null

ReturnedSuccess ==
    /\ pc = <<"returned">>
    /\ canonical[1][1].result.parsing.status = Some("success")
    /\ logs[LogId(1)].status = Some("success")

-----------------------------------------------------------------------------
(* Deactivating and reactivating a persisted model                          *)
(* (ParserModelRepository.set_active, DbModelRegistry.list_models, detect)  *)

MaxDetections == 2

(* ParserModelRepository.set_active: UPDATE parser_models SET active = ?    *)
(* on the row of that name, nothing when there is none                      *)
set_active(rows, name, active) ==
    [i \in 1..Len(rows) |->
        IF rows[i].name = name THEN [rows[i] EXCEPT !.active = active]
        ELSE rows[i]]

(* DbModelRegistry.list_models: the rows come ORDER BY pm.name; status and  *)
(* enabled both follow the active column                                    *)
db_list_models(rows) ==
    [i \in 1..Len(rows) |->
        ModelDefinition(rows[i].name, rows[i].active,
                        IF rows[i].active THEN "active" ELSE "inactive",
                        rows[i].detection_rules)]

(* the rules of the current versions of three persisted models *)
PersistedRules ==
    [brf : {Rules(<<>>, <<>>, <<"123">>, <<>>, <<>>, fb) : fb \in BOOLEAN},
     generic : {Rules(<<>>, <<>>, <<>>, <<>>, <<>>, fb) : fb \in BOOLEAN},
     lar : {Rules(<<"LAR">>, <<>>, <<>>, <<>>, rq, fb) :
               rq \in {<<>>, <<"pedido">>}, fb \in BOOLEAN}]

PersistedContexts ==
    {ParseContext(h, {}, c, c) : h \in SUBSET {"LAR"}, c \in {<<>>, <<"123">>}}

InitActive ==
    /\ \E rules \in PersistedRules :
          db = <<[name |-> "brf", active |-> TRUE,
                  detection_rules |-> rules.brf],
                 [name |-> "generic", active |-> TRUE,
                  detection_rules |-> rules.generic],
                 [name |-> "lar", active |-> TRUE,
                  detection_rules |-> rules.lar]>>
    /\ context \in PersistedContexts
    /\ ret = <<>>
    /\ models = <<>>
    /\ Idle
    /\ registries = <<>> /\ file = <<>> /\ arg = <<>>

ActiveFrame ==
    UNCHANGED <<models, context, input, pc, detection, model, exc, canonical,
                logs, docs, audit, registries, file, arg>>

(* repository.set_active(name, active) *)
SetActive ==
    /\ \E name \in {"brf", "generic", "lar", "nope"}, active \in BOOLEAN :
          db' = set_active(db, name, active)
    /\ UNCHANGED ret
    /\ ActiveFrame

(* detect(context, DbModelRegistry().list_models()); ret keeps every        *)
(* detection with the names that were active when it was made               *)
DetectPersisted ==
    /\ Len(ret) < MaxDetections
    /\ ret' = Append(ret,
                  [detection |-> detect(context, db_list_models(db)),
                   listed |-> db_list_models(db),
                   active |-> {db[i].name : i \in {j \in 1..Len(db) :
                                                      db[j].active}}])
    /\ UNCHANGED db
    /\ ActiveFrame

NextActive == SetActive \/ DetectPersisted

SpecActive == InitActive /\ [][NextActive]_vars

(* the listed models that are enabled, active and designated as fallback by *)
(* their flag or their id                                                   *)
DesignatedUsable(listed) ==
    {i \in 1..Len(listed) :
        /\ listed[i].enabled /\ listed[i].status = "active"
        /\ (listed[i].model_id = "generic" \/ listed[i].detection.fallback)}

(* C29: a model that is disabled or not active when detect runs is never    *)
(* returned with a confidence above 0, and neither its fallback flag nor    *)
(* the id generic makes it the fallback of a detection without a match:     *)
(* that detection names a usable designated model when there is one and     *)
(* the first listed model otherwise.  After its reactivation the model can  *)
(* be returned again.                                                       *)
C29_InactiveNeverSelected ==
    \A k \in 1..Len(ret) :
        LET d == ret[k].detection
            listed == ret[k].listed
        IN  /\ d.model_id \notin ret[k].active => d.confidence = Zero
            /\ d.confidence = Zero =>
                  IF DesignatedUsable(listed) # {}
                  THEN \E i \in DesignatedUsable(listed) :
                           d.model_id = listed[i].model_id
                  ELSE d.model_id = listed[1].model_id

(* lar matches the text; while it is inactive the detection without a match *)
(* goes to the first listed model, not to the inactive generic nor to the   *)
(* flagged inactive lar; after lar is reactivated it is returned            *)
C29_Witness ==
    /\ Len(ret) = 2
    /\ ret[1].active = {"brf"}
    /\ ret[1].listed[3].detection.fallback
    /\ ret[1].detection.model_id = "brf"
    /\ ret[1].detection.confidence = Zero
    /\ ret[2].active = {"brf", "lar"}
    /\ ret[2].detection.model_id = "lar"
    /\ ret[2].detection.confidence = One

-----------------------------------------------------------------------------
(* Two calls of update_model / add_version on one model at once             *)
(* (app/repositories/parser_models.py, app/db/sqlite.py)                    *)
(*                                                                         *)
(* Every call opens connections of its own (get_connection) and nothing in  *)
(* the repository serialises the calls.  With SQLite a connection's         *)
(* transaction starts at its first INSERT or UPDATE, not at a SELECT, and   *)
(* holds the write lock until the with block commits: the SELECT of         *)
(* _next_version is outside it, and a reader sees what is committed.        *)
(* db is the committed store; arg holds the locals of the two calls and     *)
(* the holder of the write lock (0: nobody).                                *)

Callers == {1, 2}

(* one model, lar, with its first version or its first two *)
StoredModel(versions) ==
    [models |-> <<[name |-> "lar", display_name |-> None, active |-> TRUE,
                   current_version_id |-> versions]>>,
     versions |-> [i \in 1..versions |->
                      [model_id |-> 1, version |-> VersionLabel(i),
                       detection_rules |-> "rules-1",
                       mapping_config |-> "mapping-1", examples |-> "[]"]],
     supplied |-> <<versions - 1>>]

(* add_version gives rules and a mapping; update_model may give only one of *)
(* rules and examples                                                       *)
VersionCalls ==
    {[method |-> "add_version", detection_rules |-> dr,
      mapping_config |-> "mapping-1", examples |-> None] :
        dr \in {"rules-2", "rules-3"}}
    \cup {[method |-> "update_model", detection_rules |-> dr,
           mapping_config |-> None, examples |-> ex] :
            dr \in {None, "rules-2"}, ex \in {"examples-1"}}

InitConcurrentVersions ==
    /\ \E versions \in 1..2 : db = StoredModel(versions)
    /\ \E calls \in [Callers -> VersionCalls] :
          arg = [call |-> calls,
                 at |-> [c \in Callers |-> "get_model"],
                 current |-> [c \in Callers |-> 0],
                 next_version |-> [c \in Callers |-> VersionLabel(0)],
                 version_id |-> [c \in Callers |-> 0],
                 before |-> Len(db.versions),
                 writer |-> 0]
    /\ ret = <<>>
    /\ models = <<>>
    /\ context = EmptyContext
    /\ Idle
    /\ registries = <<>> /\ file = <<>>

ConcurrentFrame ==
    UNCHANGED <<models, context, ret, input, pc, detection, model, exc,
                canonical, logs, docs, audit, registries, file>>

(* model = self.get_model(name): the model row and its current version *)
ReadModel(c) ==
    /\ arg.at[c] = "get_model"
    /\ arg' = [arg EXCEPT !.at[c] = "next_version",
                          !.current[c] = db.models[1].current_version_id]
    /\ UNCHANGED db
    /\ ConcurrentFrame

(* next_version = self._next_version(conn, model.id) *)
ReadNextVersion(c) ==
    /\ arg.at[c] = "next_version"
    /\ arg' = [arg EXCEPT !.at[c] = "insert",
                          !.next_version[c] = NextVersion(db, 1)]
    /\ UNCHANGED db
    /\ ConcurrentFrame

(* version_id = self._insert_version(...): the INSERT waits for the write   *)
(* lock; the row is not committed yet                                       *)
InsertVersionRecord(c) ==
    /\ arg.at[c] = "insert"
    /\ arg.writer = 0
    /\ arg' = [arg EXCEPT !.at[c] = "set_current",
                          !.version_id[c] = Len(db.versions) + 1,
                          !.writer = c]
    /\ UNCHANGED db
    /\ ConcurrentFrame

(* UPDATE parser_models SET current_version_id = ?, then the with block     *)
(* commits the version row and the pointer                                  *)
SetCurrentVersion(c) ==
    /\ arg.at[c] = "set_current"
    /\ arg.writer = c
    /\ LET call == arg.call[c]
           cur == db.versions[arg.current[c]]
       IN  db' = IF call.method = "update_model"
                 THEN InsertVersion(db, 1, arg.next_version[c],
                          Or(call.detection_rules, cur.detection_rules),
                          Or(call.mapping_config, cur.mapping_config),
                          Or(call.examples, cur.examples))
                 ELSE InsertVersion(db, 1, arg.next_version[c],
                          call.detection_rules, call.mapping_config,
                          call.examples)
    /\ arg' = [arg EXCEPT !.at[c] = "returned", !.writer = 0]
    /\ ConcurrentFrame

NextConcurrentVersions ==
    \E c \in Callers :
        \/ ReadModel(c)
        \/ ReadNextVersion(c)
        \/ InsertVersionRecord(c)
        \/ SetCurrentVersion(c)

SpecConcurrentVersions ==
    InitConcurrentVersions /\ [][NextConcurrentVersions]_vars

(* C30: whatever the interleaving of two update_model / add_version calls   *)
(* on one model, no two version records of the model carry the same label,  *)
(* the labels grow with the record ids, and once both calls have returned   *)
(* there are two new records and current_version_id designates the one      *)
(* with the highest label.                                                  *)
C30_ConcurrentVersionsDistinct ==
    /\ \A i, j \in 1..Len(db.versions) :
          i < j => db.versions[i].version[2] < db.versions[j].version[2]
    /\ (\A c \in Callers : arg.at[c] = "returned") =>
          /\ Len(db.versions) = arg.before + 2
          /\ \A i \in 1..Len(db.versions) :
                db.versions[i].version[2] <=
                    db.versions[db.models[1].current_version_id].version[2]

(* the same for the interleavings in which the two calls did not read the   *)
(* same latest label                                                        *)
DistinctWhenReadApart ==
    arg.next_version[1] # arg.next_version[2] => C30_ConcurrentVersionsDistinct

=============================================================================
